---- MODULE Spec2Model ----
(***************************************************************************)
(* Model of textmify.py: the bundle packer combine_markdown_files (with    *)
(* its word counter) and the retrying converter translate_to_markdown.     *)
(*                                                                         *)
(* Text (file names and file contents) is a sequence of character codes,   *)
(* so that sorting, stems, prefixes, globbing and word counting are        *)
(* computed the way the Python code computes them.                         *)
(*                                                                         *)
(* Environment: reads of an artifact may fail (each of the two reads the   *)
(* packer performs, independently); calls into the conversion engine may   *)
(* return any status or raise; a write may fail when the file is opened    *)
(* (the file is untouched) or after it was opened (the file is left        *)
(* empty), and it fails when the text cannot be encoded as UTF-8.          *)
(*                                                                         *)
(* A file's content is its decoded text (undecodable bytes already         *)
(* replaced); line endings are translated when the file is read. Files are *)
(* written as on Linux: a line feed is written as it is.                   *)
(***************************************************************************)
EXTENDS Integers, Sequences, FiniteSets, TLC

(* ---------------------------- bounds ----------------------------------- *)

\* max_words is drawn from 1..MaxWordsBound
MaxWordsBound == 2

\* number of packing invocations on one directory
MaxRuns == 2

\* number of steps (iterations and final writes of the packer, attempts of
\* the converter) in which a read or a write of a file fails, in one
\* behaviour; a write that raises is the only failing step of its behaviour
MaxFaults == 1

\* max_retries is drawn from -1..MaxRetriesBound
MaxRetriesBound == 3

(* ---------------------------- text helpers ----------------------------- *)

\* ".md"
MdSuffix == <<46, 109, 100>>

\* "packed_"
PackedPrefix == <<112, 97, 99, 107, 101, 100, 95>>

\* "## "
HeadingMark == <<35, 35, 32>>

\* "\n\n"
BlankLine == <<10, 10>>

\* "\n\n---\n\n"
Delimiter == <<10, 10, 45, 45, 45, 10, 10>>

\* str.startswith
StartsWith(s, p) ==
    /\ Len(p) <= Len(s)
    /\ \A i \in 1..Len(p) : s[i] = p[i]

\* str.endswith
EndsWith(s, p) ==
    /\ Len(p) <= Len(s)
    /\ \A i \in 1..Len(p) : s[Len(s) - Len(p) + i] = p[i]

\* str.rfind('.') as a 0-based index, -1 when there is no dot
RFindDot(name) ==
    LET dots == {i \in 1..Len(name) : name[i] = 46}
    IN  IF dots = {} THEN -1
        ELSE (CHOOSE i \in dots : \A j \in dots : j <= i) - 1

\* PurePath.stem: the name without its last suffix
Stem(name) ==
    LET i == RFindDot(name)
    IN  IF 0 < i /\ i < Len(name) - 1 THEN SubSeq(name, 1, i) ELSE name

\* str(int) for a non-negative integer
RECURSIVE Decimal(_)
Decimal(n) ==
    IF n < 10 THEN <<48 + n>>
    ELSE Decimal(n \div 10) \o <<48 + (n % 10)>>

\* Python's string order: code point by code point, a proper prefix first
LexLess(a, b) ==
    \E i \in 1..Len(b) :
        /\ i <= Len(a) + 1
        /\ \A j \in 1..(i - 1) : a[j] = b[j]
        /\ IF i = Len(a) + 1 THEN TRUE ELSE a[i] < b[i]

\* c lies in one of the closed intervals <<lo, hi>> of the table
InRanges(c, table) == \E r \in table : r[1] <= c /\ c <= r[2]

\* the code points above 127 that regex \w matches in a str pattern: the
\* alphanumeric characters of Unicode 14.0, as closed intervals
WordRanges ==
    {
      <<170, 170>>, <<178, 179>>, <<181, 181>>, <<185, 186>>, <<188, 190>>,
      <<192, 214>>, <<216, 246>>, <<248, 705>>, <<710, 721>>, <<736, 740>>,
      <<748, 748>>, <<750, 750>>, <<880, 884>>, <<886, 887>>, <<890, 893>>,
      <<895, 895>>, <<902, 902>>, <<904, 906>>, <<908, 908>>, <<910, 929>>,
      <<931, 1013>>, <<1015, 1153>>, <<1162, 1327>>, <<1329, 1366>>, <<1369, 1369>>,
      <<1376, 1416>>, <<1488, 1514>>, <<1519, 1522>>, <<1568, 1610>>, <<1632, 1641>>,
      <<1646, 1647>>, <<1649, 1747>>, <<1749, 1749>>, <<1765, 1766>>, <<1774, 1788>>,
      <<1791, 1791>>, <<1808, 1808>>, <<1810, 1839>>, <<1869, 1957>>, <<1969, 1969>>,
      <<1984, 2026>>, <<2036, 2037>>, <<2042, 2042>>, <<2048, 2069>>, <<2074, 2074>>,
      <<2084, 2084>>, <<2088, 2088>>, <<2112, 2136>>, <<2144, 2154>>, <<2160, 2183>>,
      <<2185, 2190>>, <<2208, 2249>>, <<2308, 2361>>, <<2365, 2365>>, <<2384, 2384>>,
      <<2392, 2401>>, <<2406, 2415>>, <<2417, 2432>>, <<2437, 2444>>, <<2447, 2448>>,
      <<2451, 2472>>, <<2474, 2480>>, <<2482, 2482>>, <<2486, 2489>>, <<2493, 2493>>,
      <<2510, 2510>>, <<2524, 2525>>, <<2527, 2529>>, <<2534, 2545>>, <<2548, 2553>>,
      <<2556, 2556>>, <<2565, 2570>>, <<2575, 2576>>, <<2579, 2600>>, <<2602, 2608>>,
      <<2610, 2611>>, <<2613, 2614>>, <<2616, 2617>>, <<2649, 2652>>, <<2654, 2654>>,
      <<2662, 2671>>, <<2674, 2676>>, <<2693, 2701>>, <<2703, 2705>>, <<2707, 2728>>,
      <<2730, 2736>>, <<2738, 2739>>, <<2741, 2745>>, <<2749, 2749>>, <<2768, 2768>>,
      <<2784, 2785>>, <<2790, 2799>>, <<2809, 2809>>, <<2821, 2828>>, <<2831, 2832>>,
      <<2835, 2856>>, <<2858, 2864>>, <<2866, 2867>>, <<2869, 2873>>, <<2877, 2877>>,
      <<2908, 2909>>, <<2911, 2913>>, <<2918, 2927>>, <<2929, 2935>>, <<2947, 2947>>,
      <<2949, 2954>>, <<2958, 2960>>, <<2962, 2965>>, <<2969, 2970>>, <<2972, 2972>>,
      <<2974, 2975>>, <<2979, 2980>>, <<2984, 2986>>, <<2990, 3001>>, <<3024, 3024>>,
      <<3046, 3058>>, <<3077, 3084>>, <<3086, 3088>>, <<3090, 3112>>, <<3114, 3129>>,
      <<3133, 3133>>, <<3160, 3162>>, <<3165, 3165>>, <<3168, 3169>>, <<3174, 3183>>,
      <<3192, 3198>>, <<3200, 3200>>, <<3205, 3212>>, <<3214, 3216>>, <<3218, 3240>>,
      <<3242, 3251>>, <<3253, 3257>>, <<3261, 3261>>, <<3293, 3294>>, <<3296, 3297>>,
      <<3302, 3311>>, <<3313, 3314>>, <<3332, 3340>>, <<3342, 3344>>, <<3346, 3386>>,
      <<3389, 3389>>, <<3406, 3406>>, <<3412, 3414>>, <<3416, 3425>>, <<3430, 3448>>,
      <<3450, 3455>>, <<3461, 3478>>, <<3482, 3505>>, <<3507, 3515>>, <<3517, 3517>>,
      <<3520, 3526>>, <<3558, 3567>>, <<3585, 3632>>, <<3634, 3635>>, <<3648, 3654>>,
      <<3664, 3673>>, <<3713, 3714>>, <<3716, 3716>>, <<3718, 3722>>, <<3724, 3747>>,
      <<3749, 3749>>, <<3751, 3760>>, <<3762, 3763>>, <<3773, 3773>>, <<3776, 3780>>,
      <<3782, 3782>>, <<3792, 3801>>, <<3804, 3807>>, <<3840, 3840>>, <<3872, 3891>>,
      <<3904, 3911>>, <<3913, 3948>>, <<3976, 3980>>, <<4096, 4138>>, <<4159, 4169>>,
      <<4176, 4181>>, <<4186, 4189>>, <<4193, 4193>>, <<4197, 4198>>, <<4206, 4208>>,
      <<4213, 4225>>, <<4238, 4238>>, <<4240, 4249>>, <<4256, 4293>>, <<4295, 4295>>,
      <<4301, 4301>>, <<4304, 4346>>, <<4348, 4680>>, <<4682, 4685>>, <<4688, 4694>>,
      <<4696, 4696>>, <<4698, 4701>>, <<4704, 4744>>, <<4746, 4749>>, <<4752, 4784>>,
      <<4786, 4789>>, <<4792, 4798>>, <<4800, 4800>>, <<4802, 4805>>, <<4808, 4822>>,
      <<4824, 4880>>, <<4882, 4885>>, <<4888, 4954>>, <<4969, 4988>>, <<4992, 5007>>,
      <<5024, 5109>>, <<5112, 5117>>, <<5121, 5740>>, <<5743, 5759>>, <<5761, 5786>>,
      <<5792, 5866>>, <<5870, 5880>>, <<5888, 5905>>, <<5919, 5937>>, <<5952, 5969>>,
      <<5984, 5996>>, <<5998, 6000>>, <<6016, 6067>>, <<6103, 6103>>, <<6108, 6108>>,
      <<6112, 6121>>, <<6128, 6137>>, <<6160, 6169>>, <<6176, 6264>>, <<6272, 6276>>,
      <<6279, 6312>>, <<6314, 6314>>, <<6320, 6389>>, <<6400, 6430>>, <<6470, 6509>>,
      <<6512, 6516>>, <<6528, 6571>>, <<6576, 6601>>, <<6608, 6618>>, <<6656, 6678>>,
      <<6688, 6740>>, <<6784, 6793>>, <<6800, 6809>>, <<6823, 6823>>, <<6917, 6963>>,
      <<6981, 6988>>, <<6992, 7001>>, <<7043, 7072>>, <<7086, 7141>>, <<7168, 7203>>,
      <<7232, 7241>>, <<7245, 7293>>, <<7296, 7304>>, <<7312, 7354>>, <<7357, 7359>>,
      <<7401, 7404>>, <<7406, 7411>>, <<7413, 7414>>, <<7418, 7418>>, <<7424, 7615>>,
      <<7680, 7957>>, <<7960, 7965>>, <<7968, 8005>>, <<8008, 8013>>, <<8016, 8023>>,
      <<8025, 8025>>, <<8027, 8027>>, <<8029, 8029>>, <<8031, 8061>>, <<8064, 8116>>,
      <<8118, 8124>>, <<8126, 8126>>, <<8130, 8132>>, <<8134, 8140>>, <<8144, 8147>>,
      <<8150, 8155>>, <<8160, 8172>>, <<8178, 8180>>, <<8182, 8188>>, <<8304, 8305>>,
      <<8308, 8313>>, <<8319, 8329>>, <<8336, 8348>>, <<8450, 8450>>, <<8455, 8455>>,
      <<8458, 8467>>, <<8469, 8469>>, <<8473, 8477>>, <<8484, 8484>>, <<8486, 8486>>,
      <<8488, 8488>>, <<8490, 8493>>, <<8495, 8505>>, <<8508, 8511>>, <<8517, 8521>>,
      <<8526, 8526>>, <<8528, 8585>>, <<9312, 9371>>, <<9450, 9471>>, <<10102, 10131>>,
      <<11264, 11492>>, <<11499, 11502>>, <<11506, 11507>>, <<11517, 11517>>, <<11520, 11557>>,
      <<11559, 11559>>, <<11565, 11565>>, <<11568, 11623>>, <<11631, 11631>>, <<11648, 11670>>,
      <<11680, 11686>>, <<11688, 11694>>, <<11696, 11702>>, <<11704, 11710>>, <<11712, 11718>>,
      <<11720, 11726>>, <<11728, 11734>>, <<11736, 11742>>, <<11823, 11823>>, <<12293, 12295>>,
      <<12321, 12329>>, <<12337, 12341>>, <<12344, 12348>>, <<12353, 12438>>, <<12445, 12447>>,
      <<12449, 12538>>, <<12540, 12543>>, <<12549, 12591>>, <<12593, 12686>>, <<12690, 12693>>,
      <<12704, 12735>>, <<12784, 12799>>, <<12832, 12841>>, <<12872, 12879>>, <<12881, 12895>>,
      <<12928, 12937>>, <<12977, 12991>>, <<13312, 19903>>, <<19968, 42124>>, <<42192, 42237>>,
      <<42240, 42508>>, <<42512, 42539>>, <<42560, 42606>>, <<42623, 42653>>, <<42656, 42735>>,
      <<42775, 42783>>, <<42786, 42888>>, <<42891, 42954>>, <<42960, 42961>>, <<42963, 42963>>,
      <<42965, 42969>>, <<42994, 43009>>, <<43011, 43013>>, <<43015, 43018>>, <<43020, 43042>>,
      <<43056, 43061>>, <<43072, 43123>>, <<43138, 43187>>, <<43216, 43225>>, <<43250, 43255>>,
      <<43259, 43259>>, <<43261, 43262>>, <<43264, 43301>>, <<43312, 43334>>, <<43360, 43388>>,
      <<43396, 43442>>, <<43471, 43481>>, <<43488, 43492>>, <<43494, 43518>>, <<43520, 43560>>,
      <<43584, 43586>>, <<43588, 43595>>, <<43600, 43609>>, <<43616, 43638>>, <<43642, 43642>>,
      <<43646, 43695>>, <<43697, 43697>>, <<43701, 43702>>, <<43705, 43709>>, <<43712, 43712>>,
      <<43714, 43714>>, <<43739, 43741>>, <<43744, 43754>>, <<43762, 43764>>, <<43777, 43782>>,
      <<43785, 43790>>, <<43793, 43798>>, <<43808, 43814>>, <<43816, 43822>>, <<43824, 43866>>,
      <<43868, 43881>>, <<43888, 44002>>, <<44016, 44025>>, <<44032, 55203>>, <<55216, 55238>>,
      <<55243, 55291>>, <<63744, 64109>>, <<64112, 64217>>, <<64256, 64262>>, <<64275, 64279>>,
      <<64285, 64285>>, <<64287, 64296>>, <<64298, 64310>>, <<64312, 64316>>, <<64318, 64318>>,
      <<64320, 64321>>, <<64323, 64324>>, <<64326, 64433>>, <<64467, 64829>>, <<64848, 64911>>,
      <<64914, 64967>>, <<65008, 65019>>, <<65136, 65140>>, <<65142, 65276>>, <<65296, 65305>>,
      <<65313, 65338>>, <<65345, 65370>>, <<65382, 65470>>, <<65474, 65479>>, <<65482, 65487>>,
      <<65490, 65495>>, <<65498, 65500>>, <<65536, 65547>>, <<65549, 65574>>, <<65576, 65594>>,
      <<65596, 65597>>, <<65599, 65613>>, <<65616, 65629>>, <<65664, 65786>>, <<65799, 65843>>,
      <<65856, 65912>>, <<65930, 65931>>, <<66176, 66204>>, <<66208, 66256>>, <<66273, 66299>>,
      <<66304, 66339>>, <<66349, 66378>>, <<66384, 66421>>, <<66432, 66461>>, <<66464, 66499>>,
      <<66504, 66511>>, <<66513, 66517>>, <<66560, 66717>>, <<66720, 66729>>, <<66736, 66771>>,
      <<66776, 66811>>, <<66816, 66855>>, <<66864, 66915>>, <<66928, 66938>>, <<66940, 66954>>,
      <<66956, 66962>>, <<66964, 66965>>, <<66967, 66977>>, <<66979, 66993>>, <<66995, 67001>>,
      <<67003, 67004>>, <<67072, 67382>>, <<67392, 67413>>, <<67424, 67431>>, <<67456, 67461>>,
      <<67463, 67504>>, <<67506, 67514>>, <<67584, 67589>>, <<67592, 67592>>, <<67594, 67637>>,
      <<67639, 67640>>, <<67644, 67644>>, <<67647, 67669>>, <<67672, 67702>>, <<67705, 67742>>,
      <<67751, 67759>>, <<67808, 67826>>, <<67828, 67829>>, <<67835, 67867>>, <<67872, 67897>>,
      <<67968, 68023>>, <<68028, 68047>>, <<68050, 68096>>, <<68112, 68115>>, <<68117, 68119>>,
      <<68121, 68149>>, <<68160, 68168>>, <<68192, 68222>>, <<68224, 68255>>, <<68288, 68295>>,
      <<68297, 68324>>, <<68331, 68335>>, <<68352, 68405>>, <<68416, 68437>>, <<68440, 68466>>,
      <<68472, 68497>>, <<68521, 68527>>, <<68608, 68680>>, <<68736, 68786>>, <<68800, 68850>>,
      <<68858, 68899>>, <<68912, 68921>>, <<69216, 69246>>, <<69248, 69289>>, <<69296, 69297>>,
      <<69376, 69415>>, <<69424, 69445>>, <<69457, 69460>>, <<69488, 69505>>, <<69552, 69579>>,
      <<69600, 69622>>, <<69635, 69687>>, <<69714, 69743>>, <<69745, 69746>>, <<69749, 69749>>,
      <<69763, 69807>>, <<69840, 69864>>, <<69872, 69881>>, <<69891, 69926>>, <<69942, 69951>>,
      <<69956, 69956>>, <<69959, 69959>>, <<69968, 70002>>, <<70006, 70006>>, <<70019, 70066>>,
      <<70081, 70084>>, <<70096, 70106>>, <<70108, 70108>>, <<70113, 70132>>, <<70144, 70161>>,
      <<70163, 70187>>, <<70272, 70278>>, <<70280, 70280>>, <<70282, 70285>>, <<70287, 70301>>,
      <<70303, 70312>>, <<70320, 70366>>, <<70384, 70393>>, <<70405, 70412>>, <<70415, 70416>>,
      <<70419, 70440>>, <<70442, 70448>>, <<70450, 70451>>, <<70453, 70457>>, <<70461, 70461>>,
      <<70480, 70480>>, <<70493, 70497>>, <<70656, 70708>>, <<70727, 70730>>, <<70736, 70745>>,
      <<70751, 70753>>, <<70784, 70831>>, <<70852, 70853>>, <<70855, 70855>>, <<70864, 70873>>,
      <<71040, 71086>>, <<71128, 71131>>, <<71168, 71215>>, <<71236, 71236>>, <<71248, 71257>>,
      <<71296, 71338>>, <<71352, 71352>>, <<71360, 71369>>, <<71424, 71450>>, <<71472, 71483>>,
      <<71488, 71494>>, <<71680, 71723>>, <<71840, 71922>>, <<71935, 71942>>, <<71945, 71945>>,
      <<71948, 71955>>, <<71957, 71958>>, <<71960, 71983>>, <<71999, 71999>>, <<72001, 72001>>,
      <<72016, 72025>>, <<72096, 72103>>, <<72106, 72144>>, <<72161, 72161>>, <<72163, 72163>>,
      <<72192, 72192>>, <<72203, 72242>>, <<72250, 72250>>, <<72272, 72272>>, <<72284, 72329>>,
      <<72349, 72349>>, <<72368, 72440>>, <<72704, 72712>>, <<72714, 72750>>, <<72768, 72768>>,
      <<72784, 72812>>, <<72818, 72847>>, <<72960, 72966>>, <<72968, 72969>>, <<72971, 73008>>,
      <<73030, 73030>>, <<73040, 73049>>, <<73056, 73061>>, <<73063, 73064>>, <<73066, 73097>>,
      <<73112, 73112>>, <<73120, 73129>>, <<73440, 73458>>, <<73648, 73648>>, <<73664, 73684>>,
      <<73728, 74649>>, <<74752, 74862>>, <<74880, 75075>>, <<77712, 77808>>, <<77824, 78894>>,
      <<82944, 83526>>, <<92160, 92728>>, <<92736, 92766>>, <<92768, 92777>>, <<92784, 92862>>,
      <<92864, 92873>>, <<92880, 92909>>, <<92928, 92975>>, <<92992, 92995>>, <<93008, 93017>>,
      <<93019, 93025>>, <<93027, 93047>>, <<93053, 93071>>, <<93760, 93846>>, <<93952, 94026>>,
      <<94032, 94032>>, <<94099, 94111>>, <<94176, 94177>>, <<94179, 94179>>, <<94208, 100343>>,
      <<100352, 101589>>, <<101632, 101640>>, <<110576, 110579>>, <<110581, 110587>>, <<110589, 110590>>,
      <<110592, 110882>>, <<110928, 110930>>, <<110948, 110951>>, <<110960, 111355>>, <<113664, 113770>>,
      <<113776, 113788>>, <<113792, 113800>>, <<113808, 113817>>, <<119520, 119539>>, <<119648, 119672>>,
      <<119808, 119892>>, <<119894, 119964>>, <<119966, 119967>>, <<119970, 119970>>, <<119973, 119974>>,
      <<119977, 119980>>, <<119982, 119993>>, <<119995, 119995>>, <<119997, 120003>>, <<120005, 120069>>,
      <<120071, 120074>>, <<120077, 120084>>, <<120086, 120092>>, <<120094, 120121>>, <<120123, 120126>>,
      <<120128, 120132>>, <<120134, 120134>>, <<120138, 120144>>, <<120146, 120485>>, <<120488, 120512>>,
      <<120514, 120538>>, <<120540, 120570>>, <<120572, 120596>>, <<120598, 120628>>, <<120630, 120654>>,
      <<120656, 120686>>, <<120688, 120712>>, <<120714, 120744>>, <<120746, 120770>>, <<120772, 120779>>,
      <<120782, 120831>>, <<122624, 122654>>, <<123136, 123180>>, <<123191, 123197>>, <<123200, 123209>>,
      <<123214, 123214>>, <<123536, 123565>>, <<123584, 123627>>, <<123632, 123641>>, <<124896, 124902>>,
      <<124904, 124907>>, <<124909, 124910>>, <<124912, 124926>>, <<124928, 125124>>, <<125127, 125135>>,
      <<125184, 125251>>, <<125259, 125259>>, <<125264, 125273>>, <<126065, 126123>>, <<126125, 126127>>,
      <<126129, 126132>>, <<126209, 126253>>, <<126255, 126269>>, <<126464, 126467>>, <<126469, 126495>>,
      <<126497, 126498>>, <<126500, 126500>>, <<126503, 126503>>, <<126505, 126514>>, <<126516, 126519>>,
      <<126521, 126521>>, <<126523, 126523>>, <<126530, 126530>>, <<126535, 126535>>, <<126537, 126537>>,
      <<126539, 126539>>, <<126541, 126543>>, <<126545, 126546>>, <<126548, 126548>>, <<126551, 126551>>,
      <<126553, 126553>>, <<126555, 126555>>, <<126557, 126557>>, <<126559, 126559>>, <<126561, 126562>>,
      <<126564, 126564>>, <<126567, 126570>>, <<126572, 126578>>, <<126580, 126583>>, <<126585, 126588>>,
      <<126590, 126590>>, <<126592, 126601>>, <<126603, 126619>>, <<126625, 126627>>, <<126629, 126633>>,
      <<126635, 126651>>, <<127232, 127244>>, <<130032, 130041>>, <<131072, 173791>>, <<173824, 177976>>,
      <<177984, 178205>>, <<178208, 183969>>, <<183984, 191456>>, <<194560, 195101>>, <<196608, 201546>> }

\* regex \w of a str pattern: digits, letters and underscore on the ASCII
\* range, the Unicode alphanumerics above it
IsWordChar(c) ==
    IF c < 128
    THEN \/ (48 <= c /\ c <= 57)
         \/ (65 <= c /\ c <= 90)
         \/ (97 <= c /\ c <= 122)
         \/ c = 95
    ELSE InRanges(c, WordRanges)

\* len(re.findall(r'\b\w+\b', content)): the number of maximal \w runs
WordsIn(content) ==
    Cardinality({i \in 1..Len(content) :
                    /\ IsWordChar(content[i])
                    /\ (i = 1 \/ ~IsWordChar(content[i - 1]))})

\* sep.join(pieces)
RECURSIVE Join(_, _)
Join(pieces, sep) ==
    IF Len(pieces) = 0 THEN <<>>
    ELSE IF Len(pieces) = 1 THEN pieces[1]
    ELSE pieces[1] \o sep \o Join(Tail(pieces), sep)

Range(s) == {s[i] : i \in 1..Len(s)}

\* what a text-mode read (newline=None) returns for the decoded text of a
\* file, from position i on: "\r\n" and a lone "\r" become "\n"
RECURSIVE ReadFrom(_, _)
ReadFrom(raw, i) ==
    IF i > Len(raw) THEN <<>>
    ELSE IF raw[i] = 13
         THEN <<10>> \o ReadFrom(raw, IF i < Len(raw) /\ raw[i + 1] = 10
                                      THEN i + 2 ELSE i + 1)
         ELSE <<raw[i]>> \o ReadFrom(raw, i + 1)

\* open(path, 'r', encoding='utf-8', errors='replace').read()
ReadText(raw) == ReadFrom(raw, 1)

\* str.encode('utf-8') succeeds: the text holds no surrogate code point
Encodable(text) ==
    \A i \in 1..Len(text) : ~(55296 <= text[i] /\ text[i] <= 57343)

\* the ways a write can end
AllWriteOutcomes == {"ok", "open_raises", "write_raises"}

\* what a write that raises can leave in the file it opened. A file is held
\* as the text its bytes decode to (UTF-8, errors='replace'). A text that
\* cannot be encoded raises in f.write before a byte is written; otherwise
\* the bytes written before the error (file size limit, full disk) are a
\* proper prefix of the encoded text, and a prefix that ends inside a
\* multi-byte character decodes with U+FFFD in its place.
PartialWrites(text) ==
    IF ~Encodable(text) THEN {<<>>}
    ELSE {SubSeq(text, 1, n) : n \in 0..(Len(text) - 1)}
         \cup {SubSeq(text, 1, n) \o <<65533>> :
                  n \in {m \in 0..(Len(text) - 1) : text[m + 1] >= 128}}

\* how open(path, 'w', encoding='utf-8') followed by f.write(text) can end
WriteOutcomes(text) ==
    {"open_raises"}
    \cup (IF Encodable(text) THEN {"ok"} ELSE {})
    \cup (IF PartialWrites(text) # {} THEN {"write_raises"} ELSE {})

\* what the write leaves in the file beside the whole text: a partial text
\* when it raised after open, nothing to choose otherwise
KeptBy(text, outcome) ==
    IF outcome = "write_raises" THEN PartialWrites(text) ELSE {<<>>}

(* ---------------------------- the directory ---------------------------- *)

\* "a.md", "a-b.md", "b.md": artifacts the converter may have produced
ArtifactNames ==
    { <<97, 46, 109, 100>>,
      <<97, 45, 98, 46, 109, 100>>,
      <<98, 46, 109, 100>> }

\* "packed_1.md" (a bundle left by an earlier run), "b.txt" (not markdown)
ExtraNames ==
    { <<112, 97, 99, 107, 101, 100, 95, 49, 46, 109, 100>>,
      <<98, 46, 116, 120, 116>> }

\* "-" (no word), "x" (one word), "x y" (two words)
Texts == { <<45>>, <<120>>, <<120, 32, 121>> }

\* "old": the content of the files of ExtraNames
ExtraText == <<111, 108, 100>>

\* "\u00e9\r\nz\r": two words, a letter outside ASCII, a Windows and an
\* old Mac line ending
ForeignText == <<233, 13, 10, 122, 13>>

\* "a.md", the artifact that may hold ForeignText
ForeignName == <<97, 46, 109, 100>>

VARIABLES
    fs,                  \* the directory: file name -> content
    max_words,           \* the max_words argument
    pc,                  \* "idle", "loop", "done" (returned) or "raised": position in combine_markdown_files
    markdown_files,      \* the sorted list of input files
    pos,                 \* number of files the for loop has processed
    combined_files,      \* the result list
    current_file_index,
    current_word_count,
    current_content,     \* the accumulator; each entry records its file and its text
    bundles,             \* history: the bundles finalized by this invocation
    count_failed,        \* history: files whose word-count read failed
    read_failed,         \* history: files whose content read failed
    fs_at_call,          \* history: the directory when this invocation began
    inputs_log,          \* history: the input set of each invocation so far
    results_log,         \* history: how each ended invocation ended, its list and its bundles
    written_ever,        \* history: every path opened for writing by any invocation
    faults               \* environment: the number of steps in which a read or a write failed (MaxFaults once a write raised)

packVars ==
    <<fs, max_words, pc, markdown_files, pos, combined_files,
      current_file_index, current_word_count, current_content, bundles,
      count_failed, read_failed, fs_at_call, inputs_log, results_log,
      written_ever, faults>>

VARIABLES
    input_folder,        \* the names of the files of the input folder
    supported_files,     \* main's list of files to convert, in listing order
    max_retries,         \* the --retries argument
    file_idx,            \* number of files main's loop has finished
    tpc,                 \* "none", "loop" or "returned": position in translate_to_markdown
    retries,
    retry_delay,
    result,              \* the value translate_to_markdown returned
    successful_files,
    last_status,         \* the engine's answer in the latest attempt
    last_export_ok,      \* whether the latest attempt exported and wrote the markdown
    attempts,            \* history: engine invocations of the current call
    sleeps,              \* history: the delays slept by the current call
    fs_at_translate,     \* history: the directory when the current call began
    combine,             \* the --combine flag
    mpc,                 \* "convert", "combine", "done", "exit" or "crashed": position in main
    calls_log,           \* history: the files translate_to_markdown was called on
    outcome_log          \* history: file, result and status of each finished call

convVars ==
    <<input_folder, supported_files, max_retries, file_idx, tpc, retries,
      retry_delay, result, successful_files, last_status, last_export_ok,
      attempts, sleeps, fs_at_translate, combine, mpc, calls_log,
      outcome_log>>

packOnlyVars ==
    <<max_words, pc, markdown_files, pos, combined_files,
      current_file_index, current_word_count, current_content, bundles,
      count_failed, read_failed, fs_at_call, inputs_log, results_log,
      written_ever>>

vars == <<packVars, convVars>>

(* ---------------------------- the packer ------------------------------- *)

\* GlobMd with the pattern '*': every directory entry matches
GlobMd_any(name) == TRUE

\* markdown_dir.glob('*.md'), for one directory entry
GlobMd(name) == EndsWith(name, MdSuffix)

\* IsEligible without the exclusion of packed_* files
IsEligible_keepPacked(name) == EndsWith(name, MdSuffix)

\* the discovery filter: a *.md file whose stem does not start with packed_
IsEligible(name) ==
    /\ GlobMd(name)
    /\ ~StartsWith(Stem(name), PackedPrefix)

\* SortFiles ordering the files by their stems instead of their paths
RECURSIVE SortFiles_byStem(_)
SortFiles_byStem(S) ==
    IF S = {} THEN <<>>
    ELSE LET m == CHOOSE x \in S :
                     \A y \in S \ {x} : LexLess(Stem(x), Stem(y))
         IN  <<m>> \o SortFiles_byStem(S \ {m})

\* markdown_files.sort(): the paths share their directory, so Path order is
\* the string order of the file names
RECURSIVE SortFiles(_)
SortFiles(S) ==
    IF S = {} THEN <<>>
    ELSE LET m == CHOOSE x \in S : \A y \in S \ {x} : LexLess(x, y)
         IN  <<m>> \o SortFiles(S \ {m})

\* count_words: the number of words of the file as read, 0 when the read
\* fails
count_words(dir, file, ok) ==
    IF ok THEN WordsIn(ReadText(dir[file])) ELSE 0

\* ShouldFlush without the test that the running total is positive
ShouldFlush_noGuard(cwc, word_count, mw) ==
    cwc + word_count > mw

\* ShouldFlush that closes a bundle the file would fill exactly
ShouldFlush_atLimit(cwc, word_count, mw) ==
    cwc > 0 /\ cwc + word_count >= mw

\* the test that closes the current bundle before a file is added
ShouldFlush(cwc, word_count, mw) ==
    cwc > 0 /\ cwc + word_count > mw

\* f"## {md_file.stem}\n\n{file_content}"
Piece(name, content) ==
    HeadingMark \o Stem(name) \o BlankLine \o content

\* AddMember assigning the accumulator instead of appending to it
AddMember_replace(cc, name, content) ==
    <<[file |-> name,
       text |-> HeadingMark \o Stem(name) \o BlankLine \o content]>>

\* current_content.append(...)
AddMember(cc, name, content) ==
    Append(cc, [file |-> name, text |-> Piece(name, content)])

\* BundleText that ends every piece, the last one too, with the delimiter
BundleText_trailingDelimiter(cc) ==
    Join([i \in 1..Len(cc) |-> cc[i].text \o Delimiter], <<>>)

\* '\n\n---\n\n'.join(current_content)
BundleText(cc) ==
    Join([i \in 1..Len(cc) |-> cc[i].text], Delimiter)

\* the files whose pieces are in the accumulator, in order
Members(cc) == [i \in 1..Len(cc) |-> cc[i].file]

\* PackedName numbering the bundles from 1
PackedName_fromOne(index) ==
    PackedPrefix \o Decimal(index + 1) \o MdSuffix

\* markdown_dir / f"packed_{current_file_index}.md"
PackedName(index) ==
    PackedPrefix \o Decimal(index) \o MdSuffix

\* WriteFile that removes the other packed_* files of the directory
WriteFile_cleaning(dir, path, content) ==
    [n \in {m \in DOMAIN dir : ~StartsWith(m, PackedPrefix)} \cup {path} |->
        IF n = path THEN content ELSE dir[n]]

\* open(path, 'w').write(content)
WriteFile(dir, path, content) ==
    [n \in (DOMAIN dir) \cup {path} |-> IF n = path THEN content ELSE dir[n]]

\* the directory after a write that ended as outcome says: the file holds
\* the content, or is untouched (open raised), or was created or truncated
\* and holds kept, the part of the content written before the error (write
\* raised)
WriteResult(dir, path, content, outcome, kept) ==
    IF outcome = "ok" THEN WriteFile(dir, path, content)
    ELSE IF outcome = "write_raises" THEN WriteFile(dir, path, kept)
    ELSE dir

\* the count of failing steps after a step: a step in which a read fails
\* counts once; a write that raises is the only failure of its behaviour
FaultsAfter(n, reads_ok, outcome) ==
    IF outcome # "ok" THEN MaxFaults
    ELSE IF reads_ok THEN n ELSE n + 1

\* the record kept of an invocation that ended: whether it returned, its
\* list, its bundles, the reads that failed, how its last write ended, on
\* which path and with what part written, and the directory it left
RunRecord(returned, paths, done, cf, rf, outcome, path, kept, dir) ==
    [returned |-> returned, paths |-> paths, bundles |-> done,
     count_failed |-> cf, read_failed |-> rf, write |-> outcome,
     failed_path |-> IF outcome = "ok" THEN <<>> ELSE path,
     kept |-> kept, fs |-> dir]

\* the record kept of a finalized bundle
BundleRecord(index, cc, cwc) ==
    [index |-> index, path |-> PackedName(index),
     members |-> Members(cc), words |-> cwc, text |-> BundleText(cc)]

\* the packer before its first invocation
PackIdle ==
    /\ pc = "idle"
    /\ markdown_files = <<>>
    /\ pos = 0
    /\ combined_files = <<>>
    /\ current_file_index = 0
    /\ current_word_count = 0
    /\ current_content = <<>>
    /\ bundles = <<>>
    /\ count_failed = {}
    /\ read_failed = {}
    /\ fs_at_call = fs
    /\ inputs_log = <<>>
    /\ results_log = <<>>
    /\ written_ever = {}
    /\ faults = 0

\* a directory to pack and a positive max_words: the empty directory, or
\* the files of ExtraNames and any of the artifacts beside them
PackInit ==
    /\ \E arts \in SUBSET ArtifactNames, extras \in {{}, ExtraNames},
          txt \in [ArtifactNames -> Texts \cup {ForeignText}] :
          /\ \A n \in ArtifactNames \ {ForeignName} : txt[n] \in Texts
          /\ extras = {} => arts = {}
          /\ fs = [n \in arts \cup extras |->
                      IF n \in arts THEN txt[n] ELSE ExtraText]
    /\ max_words \in 1..MaxWordsBound
    /\ PackIdle

\* lines 138-144: discovery finds nothing, the call returns []
Combine_ReturnEmpty ==
    /\ pc \in {"idle", "done", "raised"}
    /\ Len(inputs_log) < MaxRuns
    /\ {n \in DOMAIN fs : IsEligible(n)} = {}
    /\ pc' = "done"
    /\ markdown_files' = <<>>
    /\ pos' = 0
    /\ combined_files' = <<>>
    /\ current_file_index' = 0
    /\ current_word_count' = 0
    /\ current_content' = <<>>
    /\ bundles' = <<>>
    /\ count_failed' = {}
    /\ read_failed' = {}
    /\ fs_at_call' = fs
    /\ inputs_log' = Append(inputs_log, {})
    /\ results_log' =
          Append(results_log,
                 RunRecord(TRUE, <<>>, <<>>, {}, {}, "ok", <<>>, <<>>, fs))
    /\ UNCHANGED <<fs, max_words, written_ever, faults>>
    /\ UNCHANGED convVars

\* Combine_Begin that goes on numbering where the invocation before stopped
Combine_Begin_keepIndex ==
    /\ pc \in {"idle", "done", "raised"}
    /\ Len(inputs_log) < MaxRuns
    /\ LET files == {n \in DOMAIN fs : IsEligible(n)}
       IN  /\ files # {}
           /\ markdown_files' = SortFiles(files)
           /\ inputs_log' = Append(inputs_log, files)
    /\ pc' = "loop"
    /\ pos' = 0
    /\ combined_files' = <<>>
    /\ current_file_index' = current_file_index
    /\ current_word_count' = 0
    /\ current_content' = <<>>
    /\ bundles' = <<>>
    /\ count_failed' = {}
    /\ read_failed' = {}
    /\ fs_at_call' = fs
    /\ UNCHANGED <<fs, max_words, results_log, written_ever, faults>>
    /\ UNCHANGED convVars

\* lines 138-150: discovery, the locals, the sort
Combine_Begin ==
    /\ pc \in {"idle", "done", "raised"}
    /\ Len(inputs_log) < MaxRuns
    /\ LET files == {n \in DOMAIN fs : IsEligible(n)}
       IN  /\ files # {}
           /\ markdown_files' = SortFiles(files)
           /\ inputs_log' = Append(inputs_log, files)
    /\ pc' = "loop"
    /\ pos' = 0
    /\ combined_files' = <<>>
    /\ current_file_index' = 0
    /\ current_word_count' = 0
    /\ current_content' = <<>>
    /\ bundles' = <<>>
    /\ count_failed' = {}
    /\ read_failed' = {}
    /\ fs_at_call' = fs
    /\ UNCHANGED <<fs, max_words, results_log, written_ever, faults>>
    /\ UNCHANGED convVars

\* lines 151-171: one iteration of the for loop; count_ok and read_ok say
\* whether the word-count read and the content read of the file succeed,
\* write how the write of the bundle ends when the iteration closes one. A
\* write that raises ends the invocation: nothing catches the exception
\* inside combine_markdown_files.
Combine_Step(count_ok, read_ok, write) ==
    /\ pc = "loop"
    /\ pos < Len(markdown_files)
    /\ write # "ok" => read_ok
    /\ (count_ok /\ read_ok /\ write = "ok") \/ faults < MaxFaults
    /\ write = "ok" \/ faults = 0
    /\ faults' = FaultsAfter(faults, count_ok /\ read_ok, write)
    /\ LET md_file == markdown_files[pos + 1]
           word_count == count_words(fs, md_file, count_ok)
           flush == ShouldFlush(current_word_count, word_count, max_words)
           output_path == PackedName(current_file_index)
           text == BundleText(current_content)
           cc1 == IF flush THEN <<>> ELSE current_content
           cwc1 == IF flush THEN 0 ELSE current_word_count
           cf1 == IF count_ok THEN count_failed
                  ELSE count_failed \cup {md_file}
       IN  /\ write \in (IF flush THEN WriteOutcomes(text) ELSE {"ok"})
           /\ count_failed' = cf1
           /\ written_ever' =
                 IF flush /\ write # "open_raises"
                 THEN written_ever \cup {output_path}
                 ELSE written_ever
           /\ \E kept \in KeptBy(text, write) :
                 LET fs1 == IF flush
                            THEN WriteResult(fs, output_path, text, write, kept)
                            ELSE fs
                 IN  /\ fs' = fs1
                     /\ IF write = "ok"
                        THEN /\ combined_files' =
                                   IF flush
                                   THEN Append(combined_files, output_path)
                                   ELSE combined_files
                             /\ bundles' =
                                   IF flush
                                   THEN Append(bundles,
                                               BundleRecord(current_file_index,
                                                   current_content,
                                                   current_word_count))
                                   ELSE bundles
                             /\ current_file_index' =
                                   IF flush THEN current_file_index + 1
                                   ELSE current_file_index
                             /\ current_content' =
                                   IF read_ok
                                   THEN AddMember(cc1, md_file,
                                                  ReadText(fs1[md_file]))
                                   ELSE cc1
                             /\ current_word_count' =
                                   IF read_ok THEN cwc1 + word_count ELSE cwc1
                             /\ read_failed' =
                                   IF read_ok THEN read_failed
                                   ELSE read_failed \cup {md_file}
                             /\ pos' = pos + 1
                             /\ UNCHANGED <<pc, results_log>>
                        ELSE /\ pc' = "raised"
                             /\ results_log' =
                                   Append(results_log,
                                          RunRecord(FALSE, combined_files,
                                                    bundles, cf1, read_failed,
                                                    write, output_path, kept,
                                                    fs1))
                             /\ UNCHANGED <<combined_files, bundles,
                                            current_file_index,
                                            current_content,
                                            current_word_count, read_failed,
                                            pos>>
    /\ UNCHANGED <<max_words, markdown_files, fs_at_call, inputs_log>>
    /\ UNCHANGED convVars

\* lines 172-178: the last bundle, the return; write says how the write of
\* the last bundle ends
Combine_Finish(write) ==
    /\ pc = "loop"
    /\ pos = Len(markdown_files)
    /\ write = "ok" \/ faults = 0
    /\ faults' = FaultsAfter(faults, TRUE, write)
    /\ LET last == current_content # <<>>
           output_path == PackedName(current_file_index)
           text == BundleText(current_content)
           saved == last /\ write = "ok"
           paths == IF saved THEN Append(combined_files, output_path)
                    ELSE combined_files
           done == IF saved
                   THEN Append(bundles, BundleRecord(current_file_index,
                                           current_content, current_word_count))
                   ELSE bundles
       IN  /\ write \in (IF last THEN WriteOutcomes(text) ELSE {"ok"})
           /\ \E kept \in KeptBy(text, write) :
                 LET fs1 == IF last
                            THEN WriteResult(fs, output_path, text, write, kept)
                            ELSE fs
                 IN  /\ fs' = fs1
                     /\ results_log' =
                           Append(results_log,
                                  RunRecord(write = "ok", paths, done,
                                            count_failed, read_failed, write,
                                            output_path, kept, fs1))
           /\ combined_files' = paths
           /\ bundles' = done
           /\ written_ever' =
                 IF last /\ write # "open_raises"
                 THEN written_ever \cup {output_path}
                 ELSE written_ever
           /\ pc' = IF write = "ok" THEN "done" ELSE "raised"
    /\ UNCHANGED <<max_words, markdown_files, pos, current_file_index,
                   current_word_count, current_content, count_failed,
                   read_failed, fs_at_call, inputs_log>>
    /\ UNCHANGED convVars

(* ---------------------------- the converter ---------------------------- *)

\* Python's None
None == <<>>

\* the default of the retry_delay parameter
DefaultRetryDelay == 2

\* .pdf .docx .xlsx .pptx .md .asciidoc .html .xhtml .htm
\* .csv .png .jpg .jpeg .tiff .bmp .xml .json
supported_extensions ==
    { <<46, 112, 100, 102>>,
      <<46, 100, 111, 99, 120>>,
      <<46, 120, 108, 115, 120>>,
      <<46, 112, 112, 116, 120>>,
      <<46, 109, 100>>,
      <<46, 97, 115, 99, 105, 105, 100, 111, 99>>,
      <<46, 104, 116, 109, 108>>,
      <<46, 120, 104, 116, 109, 108>>,
      <<46, 104, 116, 109>>,
      <<46, 99, 115, 118>>,
      <<46, 112, 110, 103>>,
      <<46, 106, 112, 103>>,
      <<46, 106, 112, 101, 103>>,
      <<46, 116, 105, 102, 102>>,
      <<46, 98, 109, 112>>,
      <<46, 120, 109, 108>>,
      <<46, 106, 115, 111, 110>> }

\* "a.pdf", "a.docx", "b.PDF", "n.txt", ".h.pdf"
InputNames ==
    { <<97, 46, 112, 100, 102>>,
      <<97, 46, 100, 111, 99, 120>>,
      <<98, 46, 80, 68, 70>>,
      <<110, 46, 116, 120, 116>>,
      <<46, 104, 46, 112, 100, 102>> }

\* PurePath.suffix: the last suffix of the name, "" when there is none
Suffix(name) ==
    LET i == RFindDot(name)
    IN  IF 0 < i /\ i < Len(name) - 1
        THEN SubSeq(name, i + 1, Len(name)) ELSE <<>>

\* the lowercase mappings of Unicode 14.0 above 127 that yield one code
\* point, as <<lo, hi, step, delta>>: lo, lo+step, .. hi map to themselves
\* plus delta (capital sigma, which depends on its context, is not listed)
LowerRuns ==
    {
      <<192, 214, 1, 32>>, <<216, 222, 1, 32>>, <<256, 302, 2, 1>>,
      <<306, 310, 2, 1>>, <<313, 327, 2, 1>>, <<330, 374, 2, 1>>,
      <<376, 376, 1, -121>>, <<377, 381, 2, 1>>, <<385, 385, 1, 210>>,
      <<386, 388, 2, 1>>, <<390, 390, 1, 206>>, <<391, 391, 1, 1>>,
      <<393, 394, 1, 205>>, <<395, 395, 1, 1>>, <<398, 398, 1, 79>>,
      <<399, 399, 1, 202>>, <<400, 400, 1, 203>>, <<401, 401, 1, 1>>,
      <<403, 403, 1, 205>>, <<404, 404, 1, 207>>, <<406, 406, 1, 211>>,
      <<407, 407, 1, 209>>, <<408, 408, 1, 1>>, <<412, 412, 1, 211>>,
      <<413, 413, 1, 213>>, <<415, 415, 1, 214>>, <<416, 420, 2, 1>>,
      <<422, 422, 1, 218>>, <<423, 423, 1, 1>>, <<425, 425, 1, 218>>,
      <<428, 428, 1, 1>>, <<430, 430, 1, 218>>, <<431, 431, 1, 1>>,
      <<433, 434, 1, 217>>, <<435, 437, 2, 1>>, <<439, 439, 1, 219>>,
      <<440, 440, 1, 1>>, <<444, 444, 1, 1>>, <<452, 452, 1, 2>>,
      <<453, 453, 1, 1>>, <<455, 455, 1, 2>>, <<456, 456, 1, 1>>,
      <<458, 458, 1, 2>>, <<459, 475, 2, 1>>, <<478, 494, 2, 1>>,
      <<497, 497, 1, 2>>, <<498, 500, 2, 1>>, <<502, 502, 1, -97>>,
      <<503, 503, 1, -56>>, <<504, 542, 2, 1>>, <<544, 544, 1, -130>>,
      <<546, 562, 2, 1>>, <<570, 570, 1, 10795>>, <<571, 571, 1, 1>>,
      <<573, 573, 1, -163>>, <<574, 574, 1, 10792>>, <<577, 577, 1, 1>>,
      <<579, 579, 1, -195>>, <<580, 580, 1, 69>>, <<581, 581, 1, 71>>,
      <<582, 590, 2, 1>>, <<880, 882, 2, 1>>, <<886, 886, 1, 1>>,
      <<895, 895, 1, 116>>, <<902, 902, 1, 38>>, <<904, 906, 1, 37>>,
      <<908, 908, 1, 64>>, <<910, 911, 1, 63>>, <<913, 929, 1, 32>>,
      <<932, 939, 1, 32>>, <<975, 975, 1, 8>>, <<984, 1006, 2, 1>>,
      <<1012, 1012, 1, -60>>, <<1015, 1015, 1, 1>>, <<1017, 1017, 1, -7>>,
      <<1018, 1018, 1, 1>>, <<1021, 1023, 1, -130>>, <<1024, 1039, 1, 80>>,
      <<1040, 1071, 1, 32>>, <<1120, 1152, 2, 1>>, <<1162, 1214, 2, 1>>,
      <<1216, 1216, 1, 15>>, <<1217, 1229, 2, 1>>, <<1232, 1326, 2, 1>>,
      <<1329, 1366, 1, 48>>, <<4256, 4293, 1, 7264>>, <<4295, 4295, 1, 7264>>,
      <<4301, 4301, 1, 7264>>, <<5024, 5103, 1, 38864>>, <<5104, 5109, 1, 8>>,
      <<7312, 7354, 1, -3008>>, <<7357, 7359, 1, -3008>>, <<7680, 7828, 2, 1>>,
      <<7838, 7838, 1, -7615>>, <<7840, 7934, 2, 1>>, <<7944, 7951, 1, -8>>,
      <<7960, 7965, 1, -8>>, <<7976, 7983, 1, -8>>, <<7992, 7999, 1, -8>>,
      <<8008, 8013, 1, -8>>, <<8025, 8031, 2, -8>>, <<8040, 8047, 1, -8>>,
      <<8072, 8079, 1, -8>>, <<8088, 8095, 1, -8>>, <<8104, 8111, 1, -8>>,
      <<8120, 8121, 1, -8>>, <<8122, 8123, 1, -74>>, <<8124, 8124, 1, -9>>,
      <<8136, 8139, 1, -86>>, <<8140, 8140, 1, -9>>, <<8152, 8153, 1, -8>>,
      <<8154, 8155, 1, -100>>, <<8168, 8169, 1, -8>>, <<8170, 8171, 1, -112>>,
      <<8172, 8172, 1, -7>>, <<8184, 8185, 1, -128>>, <<8186, 8187, 1, -126>>,
      <<8188, 8188, 1, -9>>, <<8486, 8486, 1, -7517>>, <<8490, 8490, 1, -8383>>,
      <<8491, 8491, 1, -8262>>, <<8498, 8498, 1, 28>>, <<8544, 8559, 1, 16>>,
      <<8579, 8579, 1, 1>>, <<9398, 9423, 1, 26>>, <<11264, 11311, 1, 48>>,
      <<11360, 11360, 1, 1>>, <<11362, 11362, 1, -10743>>, <<11363, 11363, 1, -3814>>,
      <<11364, 11364, 1, -10727>>, <<11367, 11371, 2, 1>>, <<11373, 11373, 1, -10780>>,
      <<11374, 11374, 1, -10749>>, <<11375, 11375, 1, -10783>>, <<11376, 11376, 1, -10782>>,
      <<11378, 11378, 1, 1>>, <<11381, 11381, 1, 1>>, <<11390, 11391, 1, -10815>>,
      <<11392, 11490, 2, 1>>, <<11499, 11501, 2, 1>>, <<11506, 11506, 1, 1>>,
      <<42560, 42604, 2, 1>>, <<42624, 42650, 2, 1>>, <<42786, 42798, 2, 1>>,
      <<42802, 42862, 2, 1>>, <<42873, 42875, 2, 1>>, <<42877, 42877, 1, -35332>>,
      <<42878, 42886, 2, 1>>, <<42891, 42891, 1, 1>>, <<42893, 42893, 1, -42280>>,
      <<42896, 42898, 2, 1>>, <<42902, 42920, 2, 1>>, <<42922, 42922, 1, -42308>>,
      <<42923, 42923, 1, -42319>>, <<42924, 42924, 1, -42315>>, <<42925, 42925, 1, -42305>>,
      <<42926, 42926, 1, -42308>>, <<42928, 42928, 1, -42258>>, <<42929, 42929, 1, -42282>>,
      <<42930, 42930, 1, -42261>>, <<42931, 42931, 1, 928>>, <<42932, 42946, 2, 1>>,
      <<42948, 42948, 1, -48>>, <<42949, 42949, 1, -42307>>, <<42950, 42950, 1, -35384>>,
      <<42951, 42953, 2, 1>>, <<42960, 42960, 1, 1>>, <<42966, 42968, 2, 1>>,
      <<42997, 42997, 1, 1>>, <<65313, 65338, 1, 32>>, <<66560, 66599, 1, 40>>,
      <<66736, 66771, 1, 40>>, <<66928, 66964, 2, 39>>, <<66929, 66938, 1, 39>>,
      <<66941, 66954, 1, 39>>, <<66957, 66962, 1, 39>>, <<66965, 66965, 1, 39>>,
      <<68736, 68786, 1, 64>>, <<71840, 71871, 1, 32>>, <<93760, 93791, 1, 32>>,
      <<125184, 125217, 1, 34>> }

\* the cased characters above 127 that are not case-ignorable
CasedRanges ==
    {
      <<170, 170>>, <<181, 181>>, <<186, 186>>, <<192, 214>>, <<216, 246>>,
      <<248, 442>>, <<444, 447>>, <<452, 659>>, <<661, 687>>, <<880, 883>>,
      <<886, 887>>, <<891, 893>>, <<895, 895>>, <<902, 902>>, <<904, 906>>,
      <<908, 908>>, <<910, 929>>, <<931, 1013>>, <<1015, 1153>>, <<1162, 1327>>,
      <<1329, 1366>>, <<1376, 1416>>, <<4256, 4293>>, <<4295, 4295>>, <<4301, 4301>>,
      <<4304, 4346>>, <<4349, 4351>>, <<5024, 5109>>, <<5112, 5117>>, <<7296, 7304>>,
      <<7312, 7354>>, <<7357, 7359>>, <<7424, 7467>>, <<7531, 7543>>, <<7545, 7578>>,
      <<7680, 7957>>, <<7960, 7965>>, <<7968, 8005>>, <<8008, 8013>>, <<8016, 8023>>,
      <<8025, 8025>>, <<8027, 8027>>, <<8029, 8029>>, <<8031, 8061>>, <<8064, 8116>>,
      <<8118, 8124>>, <<8126, 8126>>, <<8130, 8132>>, <<8134, 8140>>, <<8144, 8147>>,
      <<8150, 8155>>, <<8160, 8172>>, <<8178, 8180>>, <<8182, 8188>>, <<8450, 8450>>,
      <<8455, 8455>>, <<8458, 8467>>, <<8469, 8469>>, <<8473, 8477>>, <<8484, 8484>>,
      <<8486, 8486>>, <<8488, 8488>>, <<8490, 8493>>, <<8495, 8500>>, <<8505, 8505>>,
      <<8508, 8511>>, <<8517, 8521>>, <<8526, 8526>>, <<8544, 8575>>, <<8579, 8580>>,
      <<9398, 9449>>, <<11264, 11387>>, <<11390, 11492>>, <<11499, 11502>>, <<11506, 11507>>,
      <<11520, 11557>>, <<11559, 11559>>, <<11565, 11565>>, <<42560, 42605>>, <<42624, 42651>>,
      <<42786, 42863>>, <<42865, 42887>>, <<42891, 42894>>, <<42896, 42954>>, <<42960, 42961>>,
      <<42963, 42963>>, <<42965, 42969>>, <<42997, 42998>>, <<43002, 43002>>, <<43824, 43866>>,
      <<43872, 43880>>, <<43888, 43967>>, <<64256, 64262>>, <<64275, 64279>>, <<65313, 65338>>,
      <<65345, 65370>>, <<66560, 66639>>, <<66736, 66771>>, <<66776, 66811>>, <<66928, 66938>>,
      <<66940, 66954>>, <<66956, 66962>>, <<66964, 66965>>, <<66967, 66977>>, <<66979, 66993>>,
      <<66995, 67001>>, <<67003, 67004>>, <<68736, 68786>>, <<68800, 68850>>, <<71840, 71903>>,
      <<93760, 93823>>, <<119808, 119892>>, <<119894, 119964>>, <<119966, 119967>>, <<119970, 119970>>,
      <<119973, 119974>>, <<119977, 119980>>, <<119982, 119993>>, <<119995, 119995>>, <<119997, 120003>>,
      <<120005, 120069>>, <<120071, 120074>>, <<120077, 120084>>, <<120086, 120092>>, <<120094, 120121>>,
      <<120123, 120126>>, <<120128, 120132>>, <<120134, 120134>>, <<120138, 120144>>, <<120146, 120485>>,
      <<120488, 120512>>, <<120514, 120538>>, <<120540, 120570>>, <<120572, 120596>>, <<120598, 120628>>,
      <<120630, 120654>>, <<120656, 120686>>, <<120688, 120712>>, <<120714, 120744>>, <<120746, 120770>>,
      <<120772, 120779>>, <<122624, 122633>>, <<122635, 122654>>, <<125184, 125251>>, <<127280, 127305>>,
      <<127312, 127337>>, <<127344, 127369>> }

\* the case-ignorable characters above 127
CaseIgnorableRanges ==
    {
      <<168, 168>>, <<173, 173>>, <<175, 175>>, <<180, 180>>, <<183, 184>>,
      <<688, 879>>, <<884, 885>>, <<890, 890>>, <<900, 901>>, <<903, 903>>,
      <<1155, 1161>>, <<1369, 1369>>, <<1375, 1375>>, <<1425, 1469>>, <<1471, 1471>>,
      <<1473, 1474>>, <<1476, 1477>>, <<1479, 1479>>, <<1524, 1524>>, <<1536, 1541>>,
      <<1552, 1562>>, <<1564, 1564>>, <<1600, 1600>>, <<1611, 1631>>, <<1648, 1648>>,
      <<1750, 1757>>, <<1759, 1768>>, <<1770, 1773>>, <<1807, 1807>>, <<1809, 1809>>,
      <<1840, 1866>>, <<1958, 1968>>, <<2027, 2037>>, <<2042, 2042>>, <<2045, 2045>>,
      <<2070, 2093>>, <<2137, 2139>>, <<2184, 2184>>, <<2192, 2193>>, <<2200, 2207>>,
      <<2249, 2306>>, <<2362, 2362>>, <<2364, 2364>>, <<2369, 2376>>, <<2381, 2381>>,
      <<2385, 2391>>, <<2402, 2403>>, <<2417, 2417>>, <<2433, 2433>>, <<2492, 2492>>,
      <<2497, 2500>>, <<2509, 2509>>, <<2530, 2531>>, <<2558, 2558>>, <<2561, 2562>>,
      <<2620, 2620>>, <<2625, 2626>>, <<2631, 2632>>, <<2635, 2637>>, <<2641, 2641>>,
      <<2672, 2673>>, <<2677, 2677>>, <<2689, 2690>>, <<2748, 2748>>, <<2753, 2757>>,
      <<2759, 2760>>, <<2765, 2765>>, <<2786, 2787>>, <<2810, 2815>>, <<2817, 2817>>,
      <<2876, 2876>>, <<2879, 2879>>, <<2881, 2884>>, <<2893, 2893>>, <<2901, 2902>>,
      <<2914, 2915>>, <<2946, 2946>>, <<3008, 3008>>, <<3021, 3021>>, <<3072, 3072>>,
      <<3076, 3076>>, <<3132, 3132>>, <<3134, 3136>>, <<3142, 3144>>, <<3146, 3149>>,
      <<3157, 3158>>, <<3170, 3171>>, <<3201, 3201>>, <<3260, 3260>>, <<3263, 3263>>,
      <<3270, 3270>>, <<3276, 3277>>, <<3298, 3299>>, <<3328, 3329>>, <<3387, 3388>>,
      <<3393, 3396>>, <<3405, 3405>>, <<3426, 3427>>, <<3457, 3457>>, <<3530, 3530>>,
      <<3538, 3540>>, <<3542, 3542>>, <<3633, 3633>>, <<3636, 3642>>, <<3654, 3662>>,
      <<3761, 3761>>, <<3764, 3772>>, <<3782, 3782>>, <<3784, 3789>>, <<3864, 3865>>,
      <<3893, 3893>>, <<3895, 3895>>, <<3897, 3897>>, <<3953, 3966>>, <<3968, 3972>>,
      <<3974, 3975>>, <<3981, 3991>>, <<3993, 4028>>, <<4038, 4038>>, <<4141, 4144>>,
      <<4146, 4151>>, <<4153, 4154>>, <<4157, 4158>>, <<4184, 4185>>, <<4190, 4192>>,
      <<4209, 4212>>, <<4226, 4226>>, <<4229, 4230>>, <<4237, 4237>>, <<4253, 4253>>,
      <<4348, 4348>>, <<4957, 4959>>, <<5906, 5908>>, <<5938, 5939>>, <<5970, 5971>>,
      <<6002, 6003>>, <<6068, 6069>>, <<6071, 6077>>, <<6086, 6086>>, <<6089, 6099>>,
      <<6103, 6103>>, <<6109, 6109>>, <<6155, 6159>>, <<6211, 6211>>, <<6277, 6278>>,
      <<6313, 6313>>, <<6432, 6434>>, <<6439, 6440>>, <<6450, 6450>>, <<6457, 6459>>,
      <<6679, 6680>>, <<6683, 6683>>, <<6742, 6742>>, <<6744, 6750>>, <<6752, 6752>>,
      <<6754, 6754>>, <<6757, 6764>>, <<6771, 6780>>, <<6783, 6783>>, <<6823, 6823>>,
      <<6832, 6862>>, <<6912, 6915>>, <<6964, 6964>>, <<6966, 6970>>, <<6972, 6972>>,
      <<6978, 6978>>, <<7019, 7027>>, <<7040, 7041>>, <<7074, 7077>>, <<7080, 7081>>,
      <<7083, 7085>>, <<7142, 7142>>, <<7144, 7145>>, <<7149, 7149>>, <<7151, 7153>>,
      <<7212, 7219>>, <<7222, 7223>>, <<7288, 7293>>, <<7376, 7378>>, <<7380, 7392>>,
      <<7394, 7400>>, <<7405, 7405>>, <<7412, 7412>>, <<7416, 7417>>, <<7468, 7530>>,
      <<7544, 7544>>, <<7579, 7679>>, <<8125, 8125>>, <<8127, 8129>>, <<8141, 8143>>,
      <<8157, 8159>>, <<8173, 8175>>, <<8189, 8190>>, <<8203, 8207>>, <<8216, 8217>>,
      <<8228, 8228>>, <<8231, 8231>>, <<8234, 8238>>, <<8288, 8292>>, <<8294, 8303>>,
      <<8305, 8305>>, <<8319, 8319>>, <<8336, 8348>>, <<8400, 8432>>, <<11388, 11389>>,
      <<11503, 11505>>, <<11631, 11631>>, <<11647, 11647>>, <<11744, 11775>>, <<11823, 11823>>,
      <<12293, 12293>>, <<12330, 12333>>, <<12337, 12341>>, <<12347, 12347>>, <<12441, 12446>>,
      <<12540, 12542>>, <<40981, 40981>>, <<42232, 42237>>, <<42508, 42508>>, <<42607, 42610>>,
      <<42612, 42621>>, <<42623, 42623>>, <<42652, 42655>>, <<42736, 42737>>, <<42752, 42785>>,
      <<42864, 42864>>, <<42888, 42890>>, <<42994, 42996>>, <<43000, 43001>>, <<43010, 43010>>,
      <<43014, 43014>>, <<43019, 43019>>, <<43045, 43046>>, <<43052, 43052>>, <<43204, 43205>>,
      <<43232, 43249>>, <<43263, 43263>>, <<43302, 43309>>, <<43335, 43345>>, <<43392, 43394>>,
      <<43443, 43443>>, <<43446, 43449>>, <<43452, 43453>>, <<43471, 43471>>, <<43493, 43494>>,
      <<43561, 43566>>, <<43569, 43570>>, <<43573, 43574>>, <<43587, 43587>>, <<43596, 43596>>,
      <<43632, 43632>>, <<43644, 43644>>, <<43696, 43696>>, <<43698, 43700>>, <<43703, 43704>>,
      <<43710, 43711>>, <<43713, 43713>>, <<43741, 43741>>, <<43756, 43757>>, <<43763, 43764>>,
      <<43766, 43766>>, <<43867, 43871>>, <<43881, 43883>>, <<44005, 44005>>, <<44008, 44008>>,
      <<44013, 44013>>, <<64286, 64286>>, <<64434, 64450>>, <<65024, 65039>>, <<65043, 65043>>,
      <<65056, 65071>>, <<65106, 65106>>, <<65109, 65109>>, <<65279, 65279>>, <<65287, 65287>>,
      <<65294, 65294>>, <<65306, 65306>>, <<65342, 65342>>, <<65344, 65344>>, <<65392, 65392>>,
      <<65438, 65439>>, <<65507, 65507>>, <<65529, 65531>>, <<66045, 66045>>, <<66272, 66272>>,
      <<66422, 66426>>, <<67456, 67461>>, <<67463, 67504>>, <<67506, 67514>>, <<68097, 68099>>,
      <<68101, 68102>>, <<68108, 68111>>, <<68152, 68154>>, <<68159, 68159>>, <<68325, 68326>>,
      <<68900, 68903>>, <<69291, 69292>>, <<69446, 69456>>, <<69506, 69509>>, <<69633, 69633>>,
      <<69688, 69702>>, <<69744, 69744>>, <<69747, 69748>>, <<69759, 69761>>, <<69811, 69814>>,
      <<69817, 69818>>, <<69821, 69821>>, <<69826, 69826>>, <<69837, 69837>>, <<69888, 69890>>,
      <<69927, 69931>>, <<69933, 69940>>, <<70003, 70003>>, <<70016, 70017>>, <<70070, 70078>>,
      <<70089, 70092>>, <<70095, 70095>>, <<70191, 70193>>, <<70196, 70196>>, <<70198, 70199>>,
      <<70206, 70206>>, <<70367, 70367>>, <<70371, 70378>>, <<70400, 70401>>, <<70459, 70460>>,
      <<70464, 70464>>, <<70502, 70508>>, <<70512, 70516>>, <<70712, 70719>>, <<70722, 70724>>,
      <<70726, 70726>>, <<70750, 70750>>, <<70835, 70840>>, <<70842, 70842>>, <<70847, 70848>>,
      <<70850, 70851>>, <<71090, 71093>>, <<71100, 71101>>, <<71103, 71104>>, <<71132, 71133>>,
      <<71219, 71226>>, <<71229, 71229>>, <<71231, 71232>>, <<71339, 71339>>, <<71341, 71341>>,
      <<71344, 71349>>, <<71351, 71351>>, <<71453, 71455>>, <<71458, 71461>>, <<71463, 71467>>,
      <<71727, 71735>>, <<71737, 71738>>, <<71995, 71996>>, <<71998, 71998>>, <<72003, 72003>>,
      <<72148, 72151>>, <<72154, 72155>>, <<72160, 72160>>, <<72193, 72202>>, <<72243, 72248>>,
      <<72251, 72254>>, <<72263, 72263>>, <<72273, 72278>>, <<72281, 72283>>, <<72330, 72342>>,
      <<72344, 72345>>, <<72752, 72758>>, <<72760, 72765>>, <<72767, 72767>>, <<72850, 72871>>,
      <<72874, 72880>>, <<72882, 72883>>, <<72885, 72886>>, <<73009, 73014>>, <<73018, 73018>>,
      <<73020, 73021>>, <<73023, 73029>>, <<73031, 73031>>, <<73104, 73105>>, <<73109, 73109>>,
      <<73111, 73111>>, <<73459, 73460>>, <<78896, 78904>>, <<92912, 92916>>, <<92976, 92982>>,
      <<92992, 92995>>, <<94031, 94031>>, <<94095, 94111>>, <<94176, 94177>>, <<94179, 94180>>,
      <<110576, 110579>>, <<110581, 110587>>, <<110589, 110590>>, <<113821, 113822>>, <<113824, 113827>>,
      <<118528, 118573>>, <<118576, 118598>>, <<119143, 119145>>, <<119155, 119170>>, <<119173, 119179>>,
      <<119210, 119213>>, <<119362, 119364>>, <<121344, 121398>>, <<121403, 121452>>, <<121461, 121461>>,
      <<121476, 121476>>, <<121499, 121503>>, <<121505, 121519>>, <<122880, 122886>>, <<122888, 122904>>,
      <<122907, 122913>>, <<122915, 122916>>, <<122918, 122922>>, <<123184, 123197>>, <<123566, 123566>>,
      <<123628, 123631>>, <<125136, 125142>>, <<125252, 125259>>, <<127995, 127999>>, <<917505, 917505>>,
      <<917536, 917631>>, <<917760, 917999>> }

\* a cased letter that is not case-ignorable
IsCased(c) ==
    IF c < 128 THEN (65 <= c /\ c <= 90) \/ (97 <= c /\ c <= 122)
    ELSE InRanges(c, CasedRanges)

\* a character that the Final_Sigma rule skips
IsCaseIgnorable(c) ==
    IF c < 128 THEN c \in {39, 46, 58, 94, 96}
    ELSE InRanges(c, CaseIgnorableRanges)

\* the capital sigma at position i ends a word: the nearest character
\* before it that is not case-ignorable is cased, and the nearest one after
\* it, if any, is not
FinalSigma(s, i) ==
    /\ \E j \in 1..(i - 1) :
          /\ ~IsCaseIgnorable(s[j]) /\ IsCased(s[j])
          /\ \A k \in (j + 1)..(i - 1) : IsCaseIgnorable(s[k])
    /\ ~\E j \in (i + 1)..Len(s) :
          /\ ~IsCaseIgnorable(s[j]) /\ IsCased(s[j])
          /\ \A k \in (i + 1)..(j - 1) : IsCaseIgnorable(s[k])

\* the lowercase of the character at position i of s
LowerAt(s, i) ==
    LET c == s[i]
    IN  IF c < 128
        THEN (IF 65 <= c /\ c <= 90 THEN <<c + 32>> ELSE <<c>>)
        ELSE IF c = 931
             THEN (IF FinalSigma(s, i) THEN <<962>> ELSE <<963>>)
        ELSE IF c = 304 THEN <<105, 775>>
        ELSE LET hits == {r \in LowerRuns :
                             /\ r[1] <= c /\ c <= r[2]
                             /\ (c - r[1]) % r[3] = 0}
             IN  IF hits = {} THEN <<c>>
                 ELSE <<c + (CHOOSE r \in hits : TRUE)[4]>>

\* str.lower
Lower(s) == Join([i \in 1..Len(s) |-> LowerAt(s, i)], <<>>)

is_supported_file(name) ==
    Lower(Suffix(name)) \in supported_extensions

\* line 220-221: the files of the folder that are not hidden
IsListed(name) == ~StartsWith(name, <<46>>)

\* output_dir / f"{file_path.stem}.md"
OutputFile(name) == Stem(name) \o MdSuffix

\* the statuses of the engine; "RAISED" stands for convert raising
Statuses == {"SUCCESS", "PARTIAL_SUCCESS", "FAILURE", "RAISED"}

\* the markdown the engine exports for a file: the file's name as text when
\* the conversion is complete, the stem alone when it is partial
EngineMarkdown(name, status) ==
    IF status = "SUCCESS" THEN name ELSE Stem(name)

\* LoopContinues with <= in place of <
LoopContinues_inclusive(r, mr) == r <= mr

\* the while condition of translate_to_markdown
LoopContinues(r, mr) == r < mr

\* SleepsAgain that is always true: a sleep after the last attempt too
SleepsAgain_always(r, mr) == TRUE

\* line 129: the test that guards the sleep and the doubling of the delay
SleepsAgain(r, mr) == r < mr

\* NextFileIdx that ends the batch at the first file that fails
NextFileIdx_stopOnFailure(idx, res, n) ==
    IF res = <<>> THEN n ELSE idx + 1

\* line 238: the for loop of main moves to the next file, whatever the
\* result of the call
NextFileIdx(idx, res, n) == idx + 1

\* all orderings of a finite set, as sequences
Orderings(S) ==
    {q \in [1..Cardinality(S) -> S] : \A x \in S : \E i \in DOMAIN q : q[i] = x}

\* the converter before main's loop
ConvIdle ==
    /\ file_idx = 0
    /\ tpc = "none"
    /\ retries = 0
    /\ retry_delay = DefaultRetryDelay
    /\ result = None
    /\ successful_files = <<>>
    /\ last_status = "NONE"
    /\ last_export_ok = FALSE
    /\ attempts = 0
    /\ sleeps = <<>>
    /\ fs_at_translate = fs
    /\ mpc = "convert"
    /\ calls_log = <<>>
    /\ outcome_log = <<>>

\* an input folder (empty, or the two files main does not convert with any
\* of the convertible files), the list main builds from it (lines
\* 220-223, in any listing order), a --retries value, and an output
\* directory that holds an older a.md
ConvertInit ==
    /\ fs = [n \in {<<97, 46, 109, 100>>} |-> ExtraText]
    /\ max_words = 1
    /\ PackIdle
    /\ \E conv \in SUBSET {n \in InputNames : IsListed(n) /\ is_supported_file(n)},
          rest \in {{}, {n \in InputNames : ~(IsListed(n) /\ is_supported_file(n))}} :
          /\ rest = {} => conv = {}
          /\ input_folder = conv \cup rest
    /\ supported_files \in
          Orderings({n \in input_folder : IsListed(n) /\ is_supported_file(n)})
    /\ max_retries \in (-1)..MaxRetriesBound
    /\ combine = FALSE
    /\ ConvIdle

\* lines 238-246 and 86-90: main calls translate_to_markdown on the next file
Main_Call ==
    /\ mpc = "convert"
    /\ tpc = "none"
    /\ file_idx < Len(supported_files)
    /\ is_supported_file(supported_files[file_idx + 1])
    /\ tpc' = "loop"
    /\ retries' = 0
    /\ retry_delay' = DefaultRetryDelay
    /\ result' = None
    /\ last_status' = "NONE"
    /\ last_export_ok' = FALSE
    /\ attempts' = 0
    /\ sleeps' = <<>>
    /\ fs_at_translate' = fs
    /\ calls_log' = Append(calls_log, supported_files[file_idx + 1])
    /\ UNCHANGED <<fs, input_folder, supported_files, max_retries, file_idx,
                   successful_files, combine, mpc, outcome_log>>
    /\ UNCHANGED <<packOnlyVars, faults>>

\* lines 91-132: one iteration of the while loop; status is what the engine
\* answers, export_ok whether export_to_markdown completes, write how the
\* write of the artifact ends. A write that raises is caught at line 126 and
\* the attempt counts as failed; the file it opened stays, with the part of
\* the text written before the error.
Translate_Attempt(status, export_ok, write) ==
    /\ tpc = "loop"
    /\ LoopContinues(retries, max_retries)
    /\ write = "ok" \/ faults = 0
    /\ faults' = FaultsAfter(faults, TRUE, write)
    /\ LET file_path == supported_files[file_idx + 1]
           output_file == OutputFile(file_path)
           markdown_content == EngineMarkdown(file_path, status)
           converted == status \in {"SUCCESS", "PARTIAL_SUCCESS"}
           exported == converted /\ export_ok
           saved == exported /\ write = "ok"
       IN  /\ write \in (IF exported THEN WriteOutcomes(markdown_content)
                         ELSE {"ok"})
           /\ attempts' = attempts + 1
           /\ last_status' = status
           /\ last_export_ok' = saved
           /\ \E kept \in KeptBy(markdown_content, write) :
                 fs' = IF exported
                       THEN WriteResult(fs, output_file, markdown_content,
                                        write, kept)
                       ELSE fs
           /\ IF saved
              THEN /\ result' = output_file
                   /\ tpc' = "returned"
                   /\ UNCHANGED <<retries, retry_delay, sleeps>>
              ELSE /\ retries' = retries + 1
                   /\ IF SleepsAgain(retries + 1, max_retries)
                      THEN /\ sleeps' = Append(sleeps, retry_delay)
                           /\ retry_delay' = retry_delay * 2
                      ELSE UNCHANGED <<sleeps, retry_delay>>
                   /\ UNCHANGED <<result, tpc>>
    /\ UNCHANGED <<input_folder, supported_files, max_retries, file_idx,
                   successful_files, fs_at_translate, combine, mpc,
                   calls_log, outcome_log>>
    /\ UNCHANGED packOnlyVars

\* lines 133-134: the loop ends without a conversion
Translate_GiveUp ==
    /\ tpc = "loop"
    /\ ~LoopContinues(retries, max_retries)
    /\ tpc' = "returned"
    /\ result' = None
    /\ UNCHANGED <<fs, input_folder, supported_files, max_retries, file_idx,
                   retries, retry_delay, successful_files, last_status,
                   last_export_ok, attempts, sleeps, fs_at_translate,
                   combine, mpc, calls_log, outcome_log>>
    /\ UNCHANGED <<packOnlyVars, faults>>

\* lines 247-251: main records the outcome and moves to the next file
Main_Record ==
    /\ tpc = "returned"
    /\ successful_files' =
          IF result # None THEN Append(successful_files, result)
          ELSE successful_files
    /\ file_idx' = NextFileIdx(file_idx, result, Len(supported_files))
    /\ tpc' = "none"
    /\ outcome_log' =
          Append(outcome_log, [file |-> supported_files[file_idx + 1],
                               result |-> result, status |-> last_status])
    /\ UNCHANGED <<fs, input_folder, supported_files, max_retries, retries,
                   retry_delay, result, last_status, last_export_ok, attempts,
                   sleeps, fs_at_translate, combine, mpc, calls_log>>
    /\ UNCHANGED <<packOnlyVars, faults>>

(* ---------------------------- specifications --------------------------- *)

\* combine_markdown_files invoked repeatedly on one directory
Init ==
    /\ PackInit
    /\ input_folder = {}
    /\ supported_files = <<>>
    /\ max_retries = 0
    /\ combine = FALSE
    /\ ConvIdle

Next ==
    \/ Combine_ReturnEmpty
    \/ Combine_Begin
    \/ \E count_ok \in BOOLEAN, read_ok \in BOOLEAN, write \in AllWriteOutcomes :
          Combine_Step(count_ok, read_ok, write)
    \/ \E write \in AllWriteOutcomes : Combine_Finish(write)

Spec == Init /\ [][Next]_vars

\* main's conversion loop; the program is sequential and every engine call
\* and every sleep returns, so a step that is possible is eventually taken
ConvertNext ==
    \/ Main_Call
    \/ \E status \in Statuses, export_ok \in BOOLEAN,
          write \in AllWriteOutcomes :
          Translate_Attempt(status, export_ok, write)
    \/ Translate_GiveUp
    \/ Main_Record

SpecConvert == ConvertInit /\ [][ConvertNext]_vars /\ WF_vars(ConvertNext)

(* ---------------------------- the batch run ---------------------------- *)

\* "a.pdf", "a.docx", "packed_.pdf": the input folders of a whole run
MainInputNames ==
    { <<97, 46, 112, 100, 102>>,
      <<97, 46, 100, 111, 99, 120>>,
      <<112, 97, 99, 107, 101, 100, 95, 46, 112, 100, 102>> }

\* WantsCombine that packs without --combine
WantsCombine_ignoreFlag(c, sf) == sf # <<>>

\* line 254: args.combine and successful_files
WantsCombine(c, sf) == c /\ sf # <<>>

\* a run of main: an input folder, the list built from it, --retries,
\* --combine, --max-words, and an empty output directory
MainInit ==
    /\ fs = [n \in {} |-> <<>>]
    /\ max_words = MaxWordsBound
    /\ PackIdle
    /\ input_folder \in SUBSET MainInputNames
    /\ supported_files \in
          Orderings({n \in input_folder : IsListed(n) /\ is_supported_file(n)})
    /\ max_retries \in (-1)..MaxRetriesBound
    /\ combine \in BOOLEAN
    /\ ConvIdle

\* lines 224-227: no supported file, main exits with status 0
Main_NoSupported ==
    /\ mpc = "convert"
    /\ supported_files = <<>>
    /\ mpc' = "exit"
    /\ UNCHANGED <<fs, input_folder, supported_files, max_retries, file_idx,
                   tpc, retries, retry_delay, result, successful_files,
                   last_status, last_export_ok, attempts, sleeps,
                   fs_at_translate, combine, calls_log, outcome_log>>
    /\ UNCHANGED <<packOnlyVars, faults>>

\* lines 252-254 and 264-273: the conversion loop is over; main goes on to
\* pack, or to its summary
Main_AfterConvert ==
    /\ mpc = "convert"
    /\ tpc = "none"
    /\ supported_files # <<>>
    /\ file_idx >= Len(supported_files)
    /\ mpc' = IF WantsCombine(combine, successful_files)
              THEN "combine" ELSE "done"
    /\ UNCHANGED <<fs, input_folder, supported_files, max_retries, file_idx,
                   tpc, retries, retry_delay, result, successful_files,
                   last_status, last_export_ok, attempts, sleeps,
                   fs_at_translate, combine, calls_log, outcome_log>>
    /\ UNCHANGED <<packOnlyVars, faults>>

\* line 256: main's call of combine_markdown_files on the output directory,
\* which finds files to pack
Main_Combine_Begin ==
    /\ mpc = "combine"
    /\ pc = "idle"
    /\ Combine_Begin

\* line 256: main's call of combine_markdown_files, which finds nothing
Main_Combine_Empty ==
    /\ mpc = "combine"
    /\ pc = "idle"
    /\ Combine_ReturnEmpty

\* lines 257-273: the packer has returned; main logs the bundles and prints
\* its summary
Main_AfterCombine ==
    /\ mpc = "combine"
    /\ pc = "done"
    /\ mpc' = "done"
    /\ UNCHANGED <<fs, input_folder, supported_files, max_retries, file_idx,
                   tpc, retries, retry_delay, result, successful_files,
                   last_status, last_export_ok, attempts, sleeps,
                   fs_at_translate, combine, calls_log, outcome_log>>
    /\ UNCHANGED <<packOnlyVars, faults>>

\* lines 256 and 280-282: a bundle write raised inside the packer; the
\* exception leaves main, which prints no summary
Main_CombineRaised ==
    /\ mpc = "combine"
    /\ pc = "raised"
    /\ mpc' = "crashed"
    /\ UNCHANGED <<fs, input_folder, supported_files, max_retries, file_idx,
                   tpc, retries, retry_delay, result, successful_files,
                   last_status, last_export_ok, attempts, sleeps,
                   fs_at_translate, combine, calls_log, outcome_log>>
    /\ UNCHANGED <<packOnlyVars, faults>>

MainNext ==
    \/ Main_NoSupported
    \/ Main_Call
    \/ \E status \in Statuses, export_ok \in BOOLEAN,
          write \in AllWriteOutcomes :
          Translate_Attempt(status, export_ok, write)
    \/ Translate_GiveUp
    \/ Main_Record
    \/ Main_AfterConvert
    \/ Main_Combine_Begin
    \/ Main_Combine_Empty
    \/ \E count_ok \in BOOLEAN, read_ok \in BOOLEAN, write \in AllWriteOutcomes :
          Combine_Step(count_ok, read_ok, write)
    \/ \E write \in AllWriteOutcomes : Combine_Finish(write)
    \/ Main_AfterCombine
    \/ Main_CombineRaised

\* a whole run of main, from the listing of the input folder to the summary
SpecMain == MainInit /\ [][MainNext]_vars

(* ---------------------------- vocabulary of the claims ----------------- *)

\* the eligible artifacts of the directory the current invocation was given:
\* the *.md files whose stem does not start with packed_
EligibleAtCall ==
    {n \in DOMAIN fs_at_call :
        EndsWith(n, MdSuffix) /\ ~StartsWith(Stem(n), PackedPrefix)}

\* the word count of an artifact
WordsOf(n) == WordsIn(fs_at_call[n])

RECURSIVE SumWords(_)
SumWords(members) ==
    IF members = <<>> THEN 0
    ELSE WordsOf(Head(members)) + SumWords(Tail(members))

\* the members of the bundles, concatenated in bundle order
RECURSIVE ConcatMembers(_)
ConcatMembers(bs) ==
    IF bs = <<>> THEN <<>>
    ELSE Head(bs).members \o ConcatMembers(Tail(bs))

NoReadErrors == count_failed = {} /\ read_failed = {}

NoDuplicates(q) == \A i, j \in 1..Len(q) : q[i] = q[j] => i = j

\* the least number of groups of an order-preserving contiguous partition of
\* ws[i..] in which each group totals at most mw or is one element above mw
RECURSIVE MinGroupsFrom(_, _, _)
MinGroupsFrom(ws, i, mw) ==
    IF i > Len(ws) THEN 0
    ELSE LET total(j) == SumWords(SubSeq(ws, i, j))
             ends == {j \in i..Len(ws) :
                         total(j) <= mw \/ (j = i /\ WordsOf(ws[i]) > mw)}
             costs == {1 + MinGroupsFrom(ws, j + 1, mw) : j \in ends}
         IN  CHOOSE c \in costs : \A d \in costs : c <= d

\* "a.md" and "a-b.md"
NameA == <<97, 46, 109, 100>>
NameAB == <<97, 45, 98, 46, 109, 100>>

(* ---------------------------- claims ----------------------------------- *)

\* C1: every bundle with more than one member has a total word count of at
\* most max_words, and a bundle above max_words is a single artifact that is
\* itself above max_words (stated for invocations without read errors).
C1_ThresholdRespected ==
    NoReadErrors =>
        \A i \in 1..Len(bundles) :
            LET members == bundles[i].members
                total == SumWords(members)
            IN  /\ Len(members) > 1 => total <= max_words
                /\ total > max_words =>
                      Len(members) = 1 /\ WordsOf(members[1]) > max_words

\* C2: an artifact whose own word count exceeds max_words is alone in its
\* bundle (stated for invocations without read errors).
C2_OversizedAlone ==
    NoReadErrors =>
        \A i \in 1..Len(bundles) :
            \A k \in 1..Len(bundles[i].members) :
                WordsOf(bundles[i].members[k]) > max_words =>
                    Len(bundles[i].members) = 1

\* C3: without read errors the number of bundles produced is the least
\* number of groups of a valid order-preserving contiguous partition of the
\* sorted artifacts.
C3_MinimalBundleCount ==
    (pc = "done" /\ NoReadErrors) =>
        Len(bundles) = MinGroupsFrom(markdown_files, 1, max_words)

\* C4, as claimed: the members of the bundles, concatenated in bundle order,
\* are the eligible artifacts in the lexicographic order of their stems
\* (stated for invocations without read errors).
C4_StemOrder ==
    (pc = "done" /\ NoReadErrors) =>
        LET q == ConcatMembers(bundles)
        IN  /\ Range(q) = EligibleAtCall
            /\ \A i, j \in 1..Len(q) :
                  i < j => LexLess(Stem(q[i]), Stem(q[j]))

\* C4, amended: when an invocation returns, the members of its bundles,
\* concatenated in bundle order, are the eligible artifacts whose content was
\* read, each once, in the lexicographic order of their file names (stem and
\* extension).
C4_FileNameOrder ==
    pc = "done" =>
        LET q == ConcatMembers(bundles)
        IN  /\ Range(q) = EligibleAtCall \ read_failed
            /\ \A i, j \in 1..Len(q) : i < j => LexLess(q[i], q[j])

\* C4 witness: a finished invocation packed a-b.md before a.md.
C4_Witness ==
    /\ pc = "done"
    /\ LET q == ConcatMembers(bundles)
       IN  \E i, j \in 1..Len(q) : i < j /\ q[i] = NameAB /\ q[j] = NameA

\* the text an artifact has when it is read in text mode
ContentRead(n) == ReadText(fs_at_call[n])

\* every eligible artifact is a member of exactly one bundle, once, the
\* bundles have no other member, and each bundle file holds the whole
\* content, as read, of each of its members
Conserved ==
    LET q == ConcatMembers(bundles)
    IN  /\ NoDuplicates(q)
        /\ Range(q) = EligibleAtCall
        /\ \A i \in 1..Len(bundles) :
              /\ bundles[i].path \in DOMAIN fs
              /\ fs[bundles[i].path] =
                    Join([k \in 1..Len(bundles[i].members) |->
                             HeadingMark \o Stem(bundles[i].members[k])
                             \o BlankLine
                             \o ContentRead(bundles[i].members[k])],
                         Delimiter)

\* C5: when an invocation without read errors returns, every eligible
\* artifact is a member of exactly one bundle, once and whole, and the
\* bundles have no other member.
C5_Conservation ==
    (pc = "done" /\ NoReadErrors) => Conserved

\* C5 witness: an invocation without read errors packed three artifacts into
\* at least two bundles.
C5_Witness ==
    /\ pc = "done"
    /\ NoReadErrors
    /\ Cardinality(EligibleAtCall) = 3
    /\ Len(bundles) >= 2
    /\ Conserved

\* C6: an artifact one of whose two reads failed is in no bundle and not in
\* the accumulator, and every other eligible artifact is in some bundle when
\* the invocation returns.
C6_FailedReadSkipped ==
    /\ \A n \in count_failed \cup read_failed :
          /\ n \notin Range(ConcatMembers(bundles))
          /\ n \notin Range(Members(current_content))
    /\ pc = "done" =>
          \A n \in EligibleAtCall \ (count_failed \cup read_failed) :
              n \in Range(ConcatMembers(bundles))

\* C7: every invocation on the directory has the same input set, and no
\* input is a file that an invocation wrote.
C7_NoRepack ==
    \A i \in 1..Len(inputs_log) :
        /\ inputs_log[i] = inputs_log[1]
        /\ inputs_log[i] \cap written_ever = {}

\* C7 witness: a second invocation has read the directory after the first
\* one wrote bundles into it.
C7_Witness ==
    /\ Len(inputs_log) = 2
    /\ Len(results_log) >= 1
    /\ results_log[1].paths # <<>>
    /\ inputs_log[2] # {}

\* C8: the result list is packed_0.md, packed_1.md, ... in order, without
\* gap or repeat, in every invocation; while the loop runs the index is the
\* number of bundles finalized so far.
C8_SequentialIndex ==
    /\ \A i \in 1..Len(combined_files) :
          combined_files[i] = PackedPrefix \o Decimal(i - 1) \o MdSuffix
    /\ Len(bundles) = Len(combined_files)
    /\ \A i \in 1..Len(bundles) :
          bundles[i].index = i - 1 /\ bundles[i].path = combined_files[i]
    /\ pc = "loop" => current_file_index = Len(combined_files)
    /\ \A r \in 1..Len(results_log) :
          \A i \in 1..Len(results_log[r].paths) :
              results_log[r].paths[i] =
                  PackedPrefix \o Decimal(i - 1) \o MdSuffix

\* C8 witness: a second invocation returned at least two bundles after a
\* first one had returned some.
C8_Witness ==
    /\ pc = "done"
    /\ Len(results_log) = 2
    /\ results_log[1].paths # <<>>
    /\ Len(combined_files) >= 2

\* C9: an invocation on a directory without eligible artifact returns the
\* empty list, writes no bundle, leaves the directory as it was and does not
\* raise.
C9_EmptyInput ==
    (pc # "idle" /\ EligibleAtCall = {}) =>
        /\ pc = "done"
        /\ results_log[Len(results_log)].returned
        /\ combined_files = <<>>
        /\ bundles = <<>>
        /\ fs = fs_at_call

\* C9 witness: an invocation returned on a directory that holds files, none
\* of them eligible.
C9_Witness ==
    /\ pc = "done"
    /\ EligibleAtCall = {}
    /\ DOMAIN fs_at_call = ExtraNames

\* the file translate_to_markdown is converting
CurrentSource == supported_files[file_idx + 1]

\* the number of attempts max_retries allows
AttemptBudget == IF max_retries > 0 THEN max_retries ELSE 0

\* C10, as claimed: the engine is invoked at most max_retries times (none
\* when max_retries is not positive); the loop stops at the first attempt
\* in which the engine returns SUCCESS or PARTIAL_SUCCESS, with <stem>.md
\* written; a call that returns None made max_retries attempts and wrote
\* nothing.
C10_StopsAtFirstSuccess ==
    /\ attempts <= AttemptBudget
    /\ tpc = "loop" => last_status \notin {"SUCCESS", "PARTIAL_SUCCESS"}
    /\ (tpc = "returned" /\ result # None) =>
          /\ last_status \in {"SUCCESS", "PARTIAL_SUCCESS"}
          /\ result = Stem(CurrentSource) \o MdSuffix
          /\ result \in DOMAIN fs
    /\ (tpc = "returned" /\ result = None) =>
          /\ attempts = AttemptBudget
          /\ fs = fs_at_translate

\* the safety part of C10, amended
C10_Safety ==
    /\ attempts <= AttemptBudget
    /\ tpc = "loop" => ~last_export_ok
    /\ (tpc = "returned" /\ result # None) =>
          /\ last_status \in {"SUCCESS", "PARTIAL_SUCCESS"}
          /\ last_export_ok
          /\ attempts >= 1
          /\ result = Stem(CurrentSource) \o MdSuffix
          /\ result \in DOMAIN fs
          /\ fs[result] = EngineMarkdown(CurrentSource, last_status)
    /\ (tpc = "returned" /\ result = None) =>
          /\ attempts = AttemptBudget
          /\ ~last_export_ok
          /\ \/ fs = fs_at_translate
             \/ \E status \in {"SUCCESS", "PARTIAL_SUCCESS"} :
                   \E kept \in PartialWrites(EngineMarkdown(CurrentSource,
                                                           status)) :
                      fs = WriteFile(fs_at_translate,
                                     Stem(CurrentSource) \o MdSuffix, kept)

\* C10, amended: the engine is invoked at most max_retries times (none when
\* max_retries is not positive) and the call always returns; the loop stops
\* at the first attempt in which the engine returns SUCCESS or
\* PARTIAL_SUCCESS, the export of the markdown completes and the write of
\* <stem>.md completes, and <stem>.md then holds that content; an attempt
\* with status FAILURE, or in which the conversion, the export or the write
\* raises, is a failed attempt; after max_retries failed attempts the call
\* returns None, and the directory is as it was, except that <stem>.md
\* holds a part of an exported text, a proper prefix that may be empty, when
\* a write of it raised after the file was opened.
C10_BoundedRetry ==
    /\ []C10_Safety
    /\ (tpc = "loop") ~> (tpc = "returned")

\* C10 witness: a call returned the artifact at its second attempt, after
\* one failed attempt and one sleep.
C10_Witness ==
    /\ tpc = "returned"
    /\ result # None
    /\ attempts = 2
    /\ sleeps = <<DefaultRetryDelay>>
    /\ fs[result] = EngineMarkdown(CurrentSource, last_status)
    /\ fs[result] # <<>>

\* the files main converts: the entries of the input folder that are not
\* hidden and have a supported extension
SupportedInFolder ==
    {n \in input_folder :
        ~StartsWith(n, <<46>>) /\ Lower(Suffix(n)) \in supported_extensions}

\* the conversion loop of main has processed every file
BatchFinished ==
    file_idx = Len(supported_files) /\ tpc = "none"

\* the safety part of C11
C11_Safety ==
    /\ Range(supported_files) = SupportedInFolder
    /\ NoDuplicates(supported_files)
    /\ file_idx <= Len(supported_files)
    /\ Len(calls_log) = file_idx + (IF tpc = "none" THEN 0 ELSE 1)
    /\ calls_log = SubSeq(supported_files, 1, Len(calls_log))
    /\ Len(outcome_log) = file_idx
    /\ \A i \in 1..Len(outcome_log) :
          outcome_log[i].file = supported_files[i]
    /\ Len(successful_files) =
          Cardinality({i \in 1..Len(outcome_log) :
                          outcome_log[i].result # None})

\* C11: in a batch run translate_to_markdown is called once on every
\* supported file, in the order of the list, whatever the results of the
\* earlier calls; a file whose call returns None is not counted as converted
\* and the loop goes on to the next file, until every file has been tried.
C11_EveryFileTriedOnce ==
    /\ []C11_Safety
    /\ <>BatchFinished

\* C11 witness: a batch of three files is finished; the first file failed
\* after at least one attempt and a later file was converted.
C11_Witness ==
    /\ BatchFinished
    /\ Len(supported_files) = 3
    /\ max_retries >= 1
    /\ outcome_log[1].result = None
    /\ outcome_log[1].status # "NONE"
    /\ outcome_log[3].result # None
    /\ calls_log = supported_files

\* the text of the first n members of a bundle, built member by member
\* from the texts content gives them: heading, blank line, content, and the
\* delimiter before every member but the first
RECURSIVE ExpectedBundleText(_, _, _)
ExpectedBundleText(members, n, content) ==
    IF n = 0 THEN <<>>
    ELSE LET piece == HeadingMark \o Stem(members[n]) \o BlankLine
                      \o content[members[n]]
         IN  IF n = 1 THEN piece
             ELSE ExpectedBundleText(members, n - 1, content)
                  \o Delimiter \o piece

\* the total length of the contents and stems of the members
RECURSIVE MembersLength(_, _)
MembersLength(members, content) ==
    IF members = <<>> THEN 0
    ELSE Len(Stem(Head(members))) + Len(content[Head(members)])
         + MembersLength(Tail(members), content)

\* every bundle file is built from the texts content gives its members: n
\* headings and n-1 delimiters are added to the contents, the file begins
\* with a heading and ends with the last content
BundlesBuiltFrom(content) ==
    \A i \in 1..Len(bundles) :
        LET members == bundles[i].members
            n == Len(members)
            text == fs[bundles[i].path]
        IN  /\ bundles[i].path \in DOMAIN fs
            /\ n >= 1
            /\ text = ExpectedBundleText(members, n, content)
            /\ Len(text) = MembersLength(members, content)
                           + n * (Len(HeadingMark) + Len(BlankLine))
                           + (n - 1) * Len(Delimiter)
            /\ StartsWith(text, HeadingMark \o Stem(members[1]))
            /\ EndsWith(text, BlankLine \o content[members[n]])

\* C12, as claimed: the file of a bundle with members m1..mn is heading,
\* blank line and content of m1, then for each further member the delimiter,
\* its heading, a blank line and its content, the content being what the
\* member's file holds.
C12_FileContent ==
    BundlesBuiltFrom(fs_at_call)

\* C12, amended: the file of a bundle with members m1..mn is heading, blank
\* line and content of m1, then for each further member the delimiter, its
\* heading, a blank line and its content, the content being the member's
\* text as the packer read it, with every line ending "\r\n" or "\r"
\* turned into "\n".
C12_BundleFormat ==
    BundlesBuiltFrom([n \in DOMAIN fs_at_call |-> ReadText(fs_at_call[n])])

\* C12 witness: a bundle of two members has been written, one of them an
\* artifact with "\r" in its file.
C12_Witness ==
    \E i \in 1..Len(bundles) :
        /\ Len(bundles[i].members) = 2
        /\ bundles[i].path \in DOMAIN fs
        /\ \E k \in 1..2 : 13 \in Range(fs_at_call[bundles[i].members[k]])

\* the position of a file in the sorted input list
PosOf(n) == CHOOSE j \in 1..Len(markdown_files) : markdown_files[j] = n

\* C13, as claimed: for two consecutive bundles, the total of the first plus
\* the word count of the first member of the second exceeds max_words, in
\* runs with read failures too.
C13_NoEarlyClose ==
    \A k \in 1..(Len(bundles) - 1) :
        SumWords(bundles[k].members)
            + WordsOf(bundles[k + 1].members[1]) > max_words

\* C13, amended: for two consecutive bundles B and B', the total of B plus
\* the word count of the candidate that closed B exceeds max_words; the
\* candidate comes after the last member of B in sorted order and is the
\* first member of B', unless its content read failed and it was skipped.
C13_ClosedByCandidate ==
    \A k \in 1..(Len(bundles) - 1) :
        LET members == bundles[k].members
            last == PosOf(members[Len(members)])
            first == PosOf(bundles[k + 1].members[1])
        IN  \E j \in (last + 1)..first :
                /\ SumWords(members) + WordsOf(markdown_files[j]) > max_words
                /\ (j = first \/ markdown_files[j] \in read_failed)
                /\ \A i \in (last + 1)..(j - 1) :
                      markdown_files[i] \in read_failed

\* C13 witness: a finished run with a failed content read produced two
\* bundles, the second of which begins with an artifact that the first had
\* room for.
C13_Witness ==
    /\ pc = "done"
    /\ read_failed # {}
    /\ Len(bundles) >= 2
    /\ SumWords(bundles[1].members)
          + WordsOf(bundles[2].members[1]) <= max_words

RECURSIVE Pow2(_)
Pow2(n) == IF n = 0 THEN 1 ELSE 2 * Pow2(n - 1)

\* C14: the k-th sleep of a call lasts retry_delay * 2^(k-1); there is no
\* sleep before the first attempt; while attempts remain there is one sleep
\* per failed attempt, and none after the last one, so a call that fails all
\* its max_retries attempts has slept max_retries - 1 times.
C14_Backoff ==
    /\ \A k \in 1..Len(sleeps) : sleeps[k] = DefaultRetryDelay * Pow2(k - 1)
    /\ attempts = 0 => sleeps = <<>>
    /\ (tpc = "loop" /\ attempts >= 1) =>
          Len(sleeps) = (IF attempts < max_retries THEN attempts
                         ELSE max_retries - 1)
    /\ (tpc = "returned" /\ result = None /\ max_retries >= 1) =>
          /\ attempts = max_retries
          /\ Len(sleeps) = max_retries - 1
    /\ (tpc = "returned" /\ result # None) => Len(sleeps) = attempts - 1

\* C14 witness: a call with max_retries = 3 failed three times and slept 2
\* and then 4 seconds.
C14_Witness ==
    /\ tpc = "returned"
    /\ result = None
    /\ max_retries = 3
    /\ attempts = 3
    /\ sleeps = <<2, 4>>

\* C15: after the batch, the artifact of every file counted as converted
\* holds the content the engine exported for that file, and two converted
\* files never have the same artifact.
C15_OwnArtifact ==
    BatchFinished =>
        \A i \in 1..Len(outcome_log) :
            outcome_log[i].result # None =>
                /\ outcome_log[i].result \in DOMAIN fs
                /\ fs[outcome_log[i].result] =
                      EngineMarkdown(outcome_log[i].file, outcome_log[i].status)
                /\ \A j \in 1..Len(outcome_log) :
                      (j # i /\ outcome_log[j].result # None) =>
                          outcome_log[j].result # outcome_log[i].result

\* the number of times combine_markdown_files has been invoked
PackInvocations == Len(inputs_log)

\* what C16 says of the order of the stages: the packer runs only with
\* --combine and after the conversion loop, which never resumes
C16_Order ==
    /\ PackInvocations <= 1
    /\ (pc # "idle" \/ PackInvocations >= 1 \/ mpc = "combine") =>
          /\ combine
          /\ BatchFinished
          /\ Len(outcome_log) = Len(supported_files)
    /\ mpc = "exit" => (PackInvocations = 0 /\ calls_log = <<>>)

\* C16, as claimed: with --combine the packer is invoked exactly once when
\* the conversion stage has completed, after every conversion, and no
\* conversion step follows.
C16_AlwaysPacks ==
    /\ C16_Order
    /\ (mpc = "done" /\ combine) => PackInvocations = 1

\* C16, amended: the packer is invoked at most once, only with --combine and
\* only after the conversion of every supported file has finished, and no
\* conversion step follows; when the run ends it has been invoked exactly
\* once if --combine was given and at least one file was converted, and not
\* at all otherwise.
C16_PacksAfterSuccess ==
    /\ C16_Order
    /\ mpc = "done" =>
          (PackInvocations = 1 <=> (combine /\ successful_files # <<>>))
    /\ mpc = "crashed" =>
          (PackInvocations = 1 /\ combine /\ successful_files # <<>>)

\* C16 witness: a run with --combine ended after packing, one file having
\* failed and another having been converted.
C16_Witness ==
    /\ mpc = "done"
    /\ combine
    /\ PackInvocations = 1
    /\ Len(bundles) >= 1
    /\ \E i \in 1..Len(outcome_log) : outcome_log[i].result = None
    /\ \E i \in 1..Len(outcome_log) : outcome_log[i].result # None

\* the names packed_0.md .. packed_(k-1).md
PackedPaths(k) ==
    {PackedPrefix \o Decimal(i) \o MdSuffix : i \in 0..(k - 1)}

\* "packed_0.md" and "packed_1.md"
NamePacked0 == <<112, 97, 99, 107, 101, 100, 95, 48, 46, 109, 100>>
NamePacked1 == <<112, 97, 99, 107, 101, 100, 95, 49, 46, 109, 100>>

\* C17, as claimed: an invocation that has finalized k bundles has written
\* the files packed_0.md .. packed_(k-1).md, each holding the text it was
\* finalized with, and nothing else: every other file of the directory, the
\* input artifacts and an older packed_j.md with j >= k included, is still
\* there with the content it had when the invocation began.
C17_Frame ==
    LET k == Len(bundles)
    IN  /\ DOMAIN fs = (DOMAIN fs_at_call) \cup PackedPaths(k)
        /\ \A n \in (DOMAIN fs_at_call) \ PackedPaths(k) :
              fs[n] = fs_at_call[n]
        /\ {bundles[i].path : i \in 1..k} = PackedPaths(k)
        /\ \A i, j \in 1..k : bundles[i].path = bundles[j].path => i = j
        /\ \A i \in 1..k :
              /\ bundles[i].path \in DOMAIN fs
              /\ fs[bundles[i].path] = bundles[i].text

\* the write of the bundle after the k finalized ones raised after the file
\* was opened
BrokenWrite ==
    /\ pc = "raised"
    /\ results_log[Len(results_log)].write = "write_raises"

\* C17, amended: an invocation that has finalized k bundles has written the
\* files packed_0.md .. packed_(k-1).md, each holding the text it was
\* finalized with; every other file of the directory is still there with
\* the content it had when the invocation began, except packed_k.md when
\* the write of that bundle raised after the file was opened: the invocation
\* ended there and packed_k.md holds a part of that bundle's text, a proper
\* prefix that may be empty.
C17_FrameUnlessWriteFails ==
    LET k == Len(bundles)
        next == PackedPrefix \o Decimal(k) \o MdSuffix
        touched == PackedPaths(k) \cup (IF BrokenWrite THEN {next} ELSE {})
    IN  /\ DOMAIN fs = (DOMAIN fs_at_call) \cup touched
        /\ \A n \in (DOMAIN fs_at_call) \ touched : fs[n] = fs_at_call[n]
        /\ BrokenWrite =>
              fs[next] \in PartialWrites(BundleText(current_content))
        /\ {bundles[i].path : i \in 1..k} = PackedPaths(k)
        /\ \A i, j \in 1..k : bundles[i].path = bundles[j].path => i = j
        /\ \A i \in 1..k :
              /\ bundles[i].path \in DOMAIN fs
              /\ fs[bundles[i].path] = bundles[i].text

\* C17 witness: an invocation has finalized one bundle, in a directory that
\* held an older packed_1.md, and the write of its second bundle raised
\* after the heading was written: the older packed_1.md now holds the
\* beginning of the second bundle and the artifacts are unchanged.
C17_Witness ==
    /\ BrokenWrite
    /\ Len(bundles) = 1
    /\ NamePacked1 \in DOMAIN fs_at_call
    /\ fs_at_call[NamePacked1] = ExtraText
    /\ Len(fs[NamePacked1]) > Len(HeadingMark)
    /\ fs[NamePacked1] # ExtraText
    /\ fs[NamePacked0] = bundles[1].text

\* the word count the packer obtained for an artifact in this invocation:
\* 0 when the word-count read failed
CountedWords(n) == IF n \in count_failed THEN 0 ELSE WordsOf(n)

RECURSIVE SumCounted(_)
SumCounted(members) ==
    IF members = <<>> THEN 0
    ELSE CountedWords(Head(members)) + SumCounted(Tail(members))

\* C18: the running total is the sum of the word counts obtained for the
\* artifacts in the accumulator, so a positive total means a non-empty
\* accumulator; every finalized bundle has at least one member and a
\* non-empty file, and an index is consumed only by a finalized bundle.
C18_NoEmptyBundle ==
    /\ current_word_count =
          SumCounted([i \in 1..Len(current_content) |-> current_content[i].file])
    /\ current_word_count > 0 => current_content # <<>>
    /\ \A i \in 1..Len(bundles) :
          /\ Len(bundles[i].members) >= 1
          /\ bundles[i].text # <<>>
          /\ fs[bundles[i].path] # <<>>
          /\ bundles[i].words = SumCounted(bundles[i].members)
    /\ pc \in {"loop", "raised"} => current_file_index = Len(bundles)
    /\ pc = "done" => current_file_index \in {Len(bundles), Len(bundles) - 1}

\* C18 witness: the loop has flushed a bundle and holds a positive total.
C18_Witness ==
    /\ pc = "loop"
    /\ Len(bundles) >= 1
    /\ current_word_count > 0
    /\ current_content # <<>>

\* C19: an invocation that follows another one on the same directory, with
\* the same max_words, unchanged artifacts and the same reads and the same
\* write failing at the same point (none, in a run without failure), ends
\* as the one before:
\* it returns the same list of paths, and leaves every bundle file with the
\* members and the content it had after the invocation before; the
\* directory is the same after both.
C19_Idempotent ==
    \A r \in 2..Len(results_log) :
        (/\ results_log[r].count_failed = results_log[r - 1].count_failed
         /\ results_log[r].read_failed = results_log[r - 1].read_failed
         /\ results_log[r].write = results_log[r - 1].write
         /\ results_log[r].failed_path = results_log[r - 1].failed_path
         /\ results_log[r].kept = results_log[r - 1].kept) =>
            /\ results_log[r].returned = results_log[r - 1].returned
            /\ results_log[r].paths = results_log[r - 1].paths
            /\ results_log[r].bundles = results_log[r - 1].bundles
            /\ results_log[r].fs = results_log[r - 1].fs

\* C19 witness: two invocations without read failure have each returned at
\* least two bundles, in a directory that held an older packed_1.md.
C19_Witness ==
    /\ pc = "done"
    /\ Len(results_log) = 2
    /\ faults = 0
    /\ Len(results_log[1].paths) >= 2
    /\ Len(results_log[2].paths) >= 2
    /\ results_log[2].fs = fs
    /\ \E n \in DOMAIN results_log[1].fs :
          results_log[1].fs[n] # ExtraText /\ StartsWith(n, PackedPrefix)

====
